---------------------------- MODULE Spec2Model ----------------------------
(***************************************************************************)
(* GreenDIGIT-AuthServer: the idempotent NDJSON ingestion path.            *)
(*                                                                         *)
(*   server  : submit_ndjson and ingest_status of                          *)
(*             auth_metrics_server/login_server.py, over the               *)
(*             ingest_sessions ledger and the metrics collection of        *)
(*             metrics_store.py                                            *)
(*   client  : the resume-point resolution and the upload loop of          *)
(*             chunk_service/json_to_ndjson_chunks.py, and the upload loop *)
(*             of auth_metrics_server/force_submit_from_n.py               *)
(*   convert : the chunking phase of json_to_ndjson_chunks.main(), with    *)
(*             write_chunk and _save_manifest_atomic                       *)
(***************************************************************************)
EXTENDS Integers, Sequences, FiniteSets, Bags, TLC

(***************************************************************************)
(* Bounds of the model.                                                    *)
(***************************************************************************)
\* number of submit_ndjson requests (attempts) that may be issued
MaxReq == 3
\* number of lines _append_line sees in the request body
MaxLines == 3

\* login_server.py:62, BULK_MAX_OPS = int(os.getenv("BULK_MAX_OPS", "1000")):
\* the deployment-configurable flush threshold, here set to 2 so that a body
\* of MaxLines lines is flushed in more than one batch.
BULK_MAX_OPS == 2

\* largest X-Batch-Seq of the rows ingest_status is asked about
MaxStatusSeq == 3
\* largest chunk seq of a manifest, and of the server's next_expected_seq - 1
MaxSeq == 3
\* number of lines of the local progress log
MaxLog == 2

Requests == 1..MaxReq

\* what _append_line can meet: a JSON record, a blank line (skipped), or a
\* line json.loads rejects (JSONDecodeError / UnicodeDecodeError)
LineKinds == {"rec", "blank", "bad"}

\* the request bodies considered: MaxLines lines, at most one of which is
\* not a record
Bodies ==
    {b \in [1..MaxLines -> LineKinds] :
        Cardinality({i \in 1..MaxLines : b[i] # "rec"}) <= 1}

\* the (publisher_email, Idempotency-Key, X-Batch-Seq) tuples requests carry
Keys == {[publisher_email |-> "p1", idempotency_key |-> "k1", seq |-> 5]}

VARIABLES
    ledger,     \* _db["ingest_sessions"]: a set of rows (documents with _id)
    store,      \* the metrics collection _col: a bag of documents
    body,       \* the payload sent with every attempt (the same body)
    pc,         \* per request: where its handler is
    hdr,        \* per request: the (producer, key, seq) of its headers
    line_no,    \* per request: submit_ndjson's line_no
    ops,        \* per request: submit_ndjson's ops buffer
    inserted,   \* per request: submit_ndjson's inserted counter
    resp,       \* per request: the HTTP response, once sent
    acked,      \* history: tuples for which a request completed with its row done
    late,       \* history: per request, whether its tuple was acked when it arrived
    args,       \* uploader: the command line (resume_from, no_resume_local, auto_resume)
    progress,   \* uploader: the seqs of the lines of progress.jsonl, in file order
    manifest,   \* uploader: the seqs of manifest["chunks"], in list order
    srv_next,   \* uploader: next_expected_seq as the status endpoint answered it
    upc,        \* uploader: where main() is
    resume_from,    \* uploader: main()'s resume_from
    upload_chunks,  \* uploader: main()'s upload_chunks (their seqs)
    tool,       \* uploader: which program runs, "chunks" (json_to_ndjson_chunks) or "force"
    idx,        \* uploader: position of the upload loop in upload_chunks
    curl,       \* uploader: the seqs whose curl child has been started and not waited for
    sent,       \* history: the seqs requested by the current run, in order
    got2xx,     \* history: the seqs for which some run read HTTP_STATUS=2xx
    runs,       \* number of uploader runs started so far
    conn,       \* the server request serving the running curl (0: not yet accepted)
    watch,      \* history: the chunk answered 2xx and not logged when the previous run died
    chunk_gzip, \* uploader: c.get("gzip") of the manifest's chunks
    answer,     \* history: the HTTP status and the exit code of the last curl waited for
    n_sent,     \* force_submit_from_n: main()'s counter sent
    oks,        \* history: the seqs whose upload the current run took for a success
    status_out, \* the last answer of ingest_status
    source,     \* converter: the records the decoder yields for the input of the current run
    cargs,      \* converter: the command line (chunk_size, gzip, start_seq, idem_key)
    cpc,        \* converter: where main() is
    disk,       \* the output directory: per path, the file there
    mem,        \* converter: main()'s manifest dict
    iterator,   \* converter: main()'s iterator (None, or how many records it has yielded)
    batch,      \* converter: main()'s batch
    total,      \* converter: main()'s total
    chunk_seq,  \* converter: main()'s seq
    ret,        \* converter: what follows the running _save_manifest_atomic
    existed,    \* history: whether manifest.json existed when the current run began
    produced,   \* history: what write_chunk returned, in order, since the last chunking began
    cruns,      \* number of converter runs started so far
    doc,        \* decoder: how the input file was composed (objects, layout, whether cut short)
    file,       \* decoder: the characters of the input file
    scan,       \* decoder: the frame of the iter_json_array generator
    yielded     \* decoder: the values the generator has yielded, in order

serverVars == <<ledger, store, body, pc, hdr, line_no, ops, inserted, resp, acked, late>>
runVars == <<tool, idx, curl, sent, got2xx, runs, conn, watch, chunk_gzip, answer, n_sent, oks>>
clientVars == <<args, progress, manifest, srv_next, upc, resume_from, upload_chunks, runVars>>
convVars == <<source, cargs, cpc, disk, mem, iterator, batch, total, chunk_seq,
              ret, existed, produced, cruns>>
decVars == <<doc, file, scan, yielded>>
vars == <<serverVars, clientVars, status_out, convVars, decVars>>

(***************************************************************************)
(* The storage layer (pymongo calls as the handlers use them).             *)
(***************************************************************************)
\* rows found by key and seq alone, whoever the producer is
KeyOf_any_producer(row) ==
    [publisher_email |-> "p1",
     idempotency_key |-> row.idempotency_key,
     seq |-> row.seq]

\* the fields of a row the unique index and the filters look at
KeyOf(row) ==
    [publisher_email |-> row.publisher_email,
     idempotency_key |-> row.idempotency_key,
     seq |-> row.seq]

\* the filter {"publisher_email":..., "idempotency_key":..., "seq":...}
Matching(sess, k) == {row \in sess : KeyOf(row) = k}

\* the ledger without its unique index: no insert is ever refused
NoUniqueIndex(sess, k) == FALSE

\* the unique index uq_pub_batch_seq: an insert of a second row with the same
\* (publisher_email, idempotency_key, seq) raises E11000
DuplicateKey(sess, k) == Matching(sess, k) # {}

\* sess.insert_one({... "status": "in_progress"}) when it does not raise
insert_one(sess, id, k) ==
    sess \cup {[id |-> id,
                publisher_email |-> k.publisher_email,
                idempotency_key |-> k.idempotency_key,
                seq |-> k.seq,
                status |-> "in_progress",
                inserted |-> 0]}

\* sess.update_one(filter, {"$set": {"status": "done", "inserted": n, ...}}):
\* updates one matching row, nothing when none matches (no upsert)
update_one(sess, k, n) ==
    IF Matching(sess, k) = {} THEN sess
    ELSE LET row == CHOOSE x \in Matching(sess, k) : TRUE
         IN  (sess \ {row}) \cup {[row EXCEPT !.status = "done", !.inserted = n]}

\* a rollback that leaves the row behind
delete_none(sess, k) == sess

\* sess.delete_one(filter): deletes one matching row, whatever its status
delete_one(sess, k) ==
    IF Matching(sess, k) = {} THEN sess
    ELSE sess \ {CHOOSE x \in Matching(sess, k) : TRUE}

\* the document an InsertOne of line i of the chunk k carries (the server-side
\* timestamp is left out: it does not identify the record)
Doc(k, i) ==
    [publisher_email |-> k.publisher_email,
     body |-> <<k.idempotency_key, k.seq, i>>]

RECURSIVE SeqToBag(_)
SeqToBag(s) ==
    IF s = <<>> THEN EmptyBag ELSE SetToBag({Head(s)}) (+) SeqToBag(Tail(s))

\* a flush whose documents never reach the collection
bulk_write_lost(col, o) == col

\* col.bulk_write(ops, ordered=False, ...) when it returns
bulk_write(col, o) == col (+) SeqToBag(o)

(***************************************************************************)
(* submit_ndjson                                                           *)
(***************************************************************************)
NoResp == [status |-> 0, ok |-> FALSE, inserted |-> 0, duplicate |-> FALSE,
           next_expected_seq |-> 0]

\* no request has arrived yet
InitRequests ==
    /\ pc = [r \in Requests |-> "idle"]
    /\ hdr = [r \in Requests |-> CHOOSE k \in Keys : TRUE]
    /\ line_no = [r \in Requests |-> 0]
    /\ ops = [r \in Requests |-> <<>>]
    /\ inserted = [r \in Requests |-> 0]
    /\ resp = [r \in Requests |-> NoResp]
    /\ acked = {}
    /\ late = [r \in Requests |-> FALSE]

\* Python's None / an int, for resume_from
None == [some |-> FALSE, val |-> 0]
Some(v) == [some |-> TRUE, val |-> v]

\* number of records the decoder yields for an input file
MaxRecords == 3
\* largest --start-seq
MaxStartSeq == 1
\* largest --chunk-size
MaxChunkSize == 2

\* the files of the output directory: manifest.json, manifest.tmp
\* (path.with_suffix(".tmp"), line 142) and the chunk files
\* {prefix}_{seq:06d}.ndjson and {prefix}_{seq:06d}.ndjson.gz (lines 233, 130)
manifest_path == [name |-> "manifest.json", seq |-> 0, gz |-> FALSE]
tmp_path == [name |-> "manifest.tmp", seq |-> 0, gz |-> FALSE]
chunk_path(n, gz) == [name |-> "chunk.ndjson", seq |-> n, gz |-> gz]
ChunkPaths == {chunk_path(n, gz) : n \in 0..(MaxStartSeq + MaxRecords), gz \in BOOLEAN}
Paths == {manifest_path, tmp_path} \cup ChunkPaths

\* no file at a path; a file whose writer has written and closed it; a file
\* left by a writer that died before it was done
Absent == [exists |-> FALSE, closed |-> FALSE, data |-> <<>>]
Closed(d) == [exists |-> TRUE, closed |-> TRUE, data |-> d]
Partial(d) == [exists |-> TRUE, closed |-> FALSE, data |-> d]

\* main()'s locals of the chunking phase when it is not running
NoLocals ==
    /\ mem = [start_seq |-> 0, chunks |-> <<>>, total_records |-> None,
              idempotency_key |-> ""]
    /\ iterator = None
    /\ batch = <<>>
    /\ total = 0
    /\ chunk_seq = 0
    /\ ret = "none"
    /\ existed = FALSE

\* the iter_json_array generator before it is created
Idle == [pc |-> "off", pos |-> 0, in_string |-> FALSE, escape |-> FALSE,
         depth |-> 0, buf |-> <<>>]

\* no input file is being decoded
NoScan ==
    /\ doc = [objs |-> <<>>, kind |-> "array", cut |-> FALSE]
    /\ file = <<>>
    /\ scan = Idle
    /\ yielded = <<>>

\* an empty output directory and no converter run
NoConversion ==
    /\ source = <<>>
    /\ cargs = [chunk_size |-> 1, gzip |-> FALSE, start_seq |-> 0, idem_key |-> ""]
    /\ cpc = "off"
    /\ disk = [p \in Paths |-> Absent]
    /\ NoLocals
    /\ produced = <<>>
    /\ cruns = 0

\* no run has died between a 2xx answer and the append to progress.jsonl
NoWatch == [some |-> FALSE, val |-> 0, run |-> 0]

\* no curl has been waited for
NoAnswer == [status |-> 0, rc |-> 0]

\* the first uploader run, before its loop: nothing requested yet
InitRun ==
    /\ tool = "chunks"
    /\ idx = 1
    /\ curl = {}
    /\ sent = <<>>
    /\ got2xx = {}
    /\ runs = 1
    /\ conn = 0
    /\ watch = NoWatch
    /\ chunk_gzip = FALSE
    /\ answer = NoAnswer
    /\ n_sent = 0
    /\ oks = {}

\* the uploader before main() has resolved anything
InitClient ==
    /\ InitRun
    /\ args = [resume_from |-> None, no_resume_local |-> FALSE, auto_resume |-> FALSE]
    /\ progress = <<>>
    /\ manifest = <<>>
    /\ srv_next = 0
    /\ upc = "start"
    /\ resume_from = None
    /\ upload_chunks = <<>>

\* ingest_status has not been asked
NoStatus == [next_expected_seq |-> 0, processed |-> <<>>, in_progress |-> <<>>,
             missing |-> <<>>, asked |-> FALSE]

\* the server as it starts: empty collections, no request in flight
InitServer ==
    /\ ledger = {}
    /\ store = EmptyBag
    /\ InitRequests

Init ==
    /\ InitServer
    /\ body \in Bodies
    /\ InitClient
    /\ NoConversion
    /\ NoScan
    /\ status_out = NoStatus

\* the handler is left (return, raise, or the death of the process): its
\* locals line_no, ops and inserted are gone
Return(r) ==
    /\ line_no' = [line_no EXCEPT ![r] = 0]
    /\ ops' = [ops EXCEPT ![r] = <<>>]
    /\ inserted' = [inserted EXCEPT ![r] = 0]

\* lines 670-688 and 689-690: the headers are read and the in_progress row is
\* inserted; E11000 sends the handler to the read-back of the existing row
ClaimKey(r, k) ==
    /\ pc[r] = "idle"
    /\ \A q \in Requests : q < r => pc[q] # "idle"   \* numbered as they arrive
    /\ hdr' = [hdr EXCEPT ![r] = k]
    /\ late' = [late EXCEPT ![r] = (k \in acked)]
    /\ IF DuplicateKey(ledger, k)
       THEN /\ pc' = [pc EXCEPT ![r] = "readback"]
            /\ UNCHANGED ledger
       ELSE /\ ledger' = insert_one(ledger, r, k)
            /\ pc' = [pc EXCEPT ![r] = "ingest"]
    /\ UNCHANGED <<store, body, line_no, ops, inserted, resp, acked>>

\* a request of any client, with any of the tuples
Claim(r) ==
    /\ \E k \in Keys : ClaimKey(r, k)
    /\ UNCHANGED <<clientVars, status_out, convVars, decVars>>

\* line 695: existing and existing.get("status") == "done"
really_finished(existing) ==
    existing # {} /\ (CHOOSE x \in existing : TRUE).status = "done"

\* lines 691-701: find_one on the tuple; done => duplicate response, anything
\* else (in_progress, or no row any more) falls through to the ingest
ReadBack(r) ==
    /\ pc[r] = "readback"
    /\ LET existing == Matching(ledger, hdr[r])
       IN  IF really_finished(existing)
           THEN /\ pc' = [pc EXCEPT ![r] = "dup"]
                /\ resp' = [resp EXCEPT ![r] =
                       [status |-> 200, ok |-> TRUE, inserted |-> 0,
                        duplicate |-> TRUE,
                        next_expected_seq |-> hdr[r].seq + 1]]
           ELSE /\ pc' = [pc EXCEPT ![r] = "ingest"]
                /\ UNCHANGED resp
    /\ UNCHANGED <<ledger, store, body, hdr, line_no, ops, inserted, acked, late>>
    /\ UNCHANGED <<clientVars, status_out, convVars, decVars>>

\* a buffer flushed only once it has grown beyond BULK_MAX_OPS
buffer_full_late(o) == Len(o) > BULK_MAX_OPS

\* line 726: the test that sends the pending ops to bulk_write
buffer_full(o) == Len(o) >= BULK_MAX_OPS

\* lines 710-729, _append_line on the next line of the body, when no
\* bulk_write raises
AppendLine(r) ==
    /\ pc[r] = "ingest"
    /\ line_no[r] < Len(body)
    /\ line_no' = [line_no EXCEPT ![r] = @ + 1]
    /\ LET kind == body[line_no[r] + 1]
           ops2 == Append(ops[r], Doc(hdr[r], line_no[r] + 1))
       IN  CASE kind = "blank" ->
                  UNCHANGED <<pc, ops, inserted, store, resp>>
             [] kind = "bad" ->
                  \* HTTPException(400) caught at line 758
                  /\ pc' = [pc EXCEPT ![r] = "rollback"]
                  /\ resp' = [resp EXCEPT ![r] = [NoResp EXCEPT !.status = 400]]
                  /\ UNCHANGED <<ops, inserted, store>>
             [] kind = "rec" ->
                  /\ UNCHANGED <<pc, resp>>
                  /\ IF buffer_full(ops2)
                     THEN /\ store' = bulk_write(store, ops2)
                          /\ inserted' = [inserted EXCEPT ![r] = @ + Len(ops2)]
                          /\ ops' = [ops EXCEPT ![r] = <<>>]
                     ELSE /\ ops' = [ops EXCEPT ![r] = ops2]
                          /\ UNCHANGED <<store, inserted>>
    /\ UNCHANGED <<ledger, body, hdr, acked, late>>
    /\ UNCHANGED <<clientVars, status_out, convVars, decVars>>

\* lines 726-727 and 753: the bulk_write of a full batch raises PyMongoError
\* (nothing of the failed batch is taken to be written)
AppendLineStorageError(r) ==
    /\ pc[r] = "ingest"
    /\ line_no[r] < Len(body)
    /\ body[line_no[r] + 1] = "rec"
    /\ buffer_full(Append(ops[r], Doc(hdr[r], line_no[r] + 1)))
    /\ line_no' = [line_no EXCEPT ![r] = @ + 1]
    /\ ops' = [ops EXCEPT ![r] = Append(@, Doc(hdr[r], line_no[r] + 1))]
    /\ pc' = [pc EXCEPT ![r] = "rollback"]
    /\ resp' = [resp EXCEPT ![r] = [NoResp EXCEPT !.status = 500]]
    /\ UNCHANGED <<ledger, store, body, hdr, inserted, acked, late>>
    /\ UNCHANGED <<clientVars, status_out, convVars, decVars>>

\* lines 749-751: the stream is exhausted; what is left in ops is flushed
EndOfStream(r) ==
    /\ pc[r] = "ingest"
    /\ line_no[r] = Len(body)
    /\ pc' = [pc EXCEPT ![r] = "finalise"]
    /\ IF ops[r] # <<>>
       THEN /\ store' = bulk_write(store, ops[r])
            /\ inserted' = [inserted EXCEPT ![r] = @ + Len(ops[r])]
       ELSE UNCHANGED <<store, inserted>>
    /\ UNCHANGED <<ledger, body, hdr, line_no, ops, resp, acked, late>>
    /\ UNCHANGED <<clientVars, status_out, convVars, decVars>>

\* lines 750 and 753: the last bulk_write raises PyMongoError
EndOfStreamStorageError(r) ==
    /\ pc[r] = "ingest"
    /\ line_no[r] = Len(body)
    /\ ops[r] # <<>>
    /\ pc' = [pc EXCEPT ![r] = "rollback"]
    /\ resp' = [resp EXCEPT ![r] = [NoResp EXCEPT !.status = 500]]
    /\ UNCHANGED <<ledger, store, body, hdr, line_no, ops, inserted, acked, late>>
    /\ UNCHANGED <<clientVars, status_out, convVars, decVars>>

\* what hdr holds for a request without Idempotency-Key or X-Batch-Seq
\* (seq_int and sess stay None, line 672)
NoTuple == [publisher_email |-> "p1", idempotency_key |-> "", seq |-> 0]

\* a handler that takes every request to have an idempotency session
has_session_always(k) == TRUE

\* lines 754, 760, 765 and 770: "seq_int is not None"
has_session(k) == k # NoTuple

\* lines 753-767: every except branch deletes the row of the tuple (when the
\* request has one), then the failure is raised to the client
Rollback(r) ==
    /\ pc[r] = "rollback"
    /\ ledger' = IF has_session(hdr[r]) THEN delete_one(ledger, hdr[r]) ELSE ledger
    /\ pc' = [pc EXCEPT ![r] = "failed"]
    /\ Return(r)
    /\ UNCHANGED <<store, body, hdr, resp, acked, late>>
    /\ UNCHANGED <<clientVars, status_out, convVars, decVars>>

\* lines 769-777: the row is set to done and the success response is sent;
\* without idempotency headers the response has no next_expected_seq
Finalise(r) ==
    /\ pc[r] = "finalise"
    /\ ledger' = IF has_session(hdr[r])
                 THEN update_one(ledger, hdr[r], inserted[r])
                 ELSE ledger
    /\ acked' = IF has_session(hdr[r]) /\ Matching(ledger, hdr[r]) # {}
                THEN acked \cup {hdr[r]}
                ELSE acked
    /\ pc' = [pc EXCEPT ![r] = "ok"]
    /\ resp' = [resp EXCEPT ![r] =
           [status |-> 200, ok |-> TRUE, inserted |-> inserted[r],
            duplicate |-> FALSE,
            next_expected_seq |-> IF has_session(hdr[r])
                                  THEN hdr[r].seq + 1
                                  ELSE NoResp.next_expected_seq]]
    /\ Return(r)
    /\ UNCHANGED <<store, body, hdr, late>>
    /\ UNCHANGED <<clientVars, status_out, convVars, decVars>>

\* the server process dies (or the worker is killed on a request timeout)
\* while the handler is between two storage calls: nothing more runs for r
Crash(r) ==
    /\ pc[r] \in {"readback", "ingest", "finalise", "rollback"}
    /\ pc' = [pc EXCEPT ![r] = "crashed"]
    /\ resp' = [resp EXCEPT ![r] = NoResp]
    /\ Return(r)
    /\ UNCHANGED <<ledger, store, body, hdr, acked, late>>
    /\ UNCHANGED <<clientVars, status_out, convVars, decVars>>

Step(r) ==
    \/ ReadBack(r)
    \/ AppendLine(r)
    \/ AppendLineStorageError(r)
    \/ EndOfStream(r)
    \/ EndOfStreamStorageError(r)
    \/ Rollback(r)
    \/ Finalise(r)
    \/ Crash(r)

Next == \E r \in Requests : Claim(r) \/ Step(r)

\* requests may overlap freely (concurrent workers / interleaved handlers)
Spec == Init /\ [][Next]_vars


\* a handler that has answered or died
Terminal == {"ok", "dup", "failed", "crashed"}

\* line 705-777 run by one request at a time: a client that resends only
\* after the previous attempt has answered or its server process has died
ClaimAfterPrevious(r) ==
    /\ \A q \in Requests : pc[q] \in Terminal \cup {"idle"}
    /\ Claim(r)

NextSeq == \E r \in Requests : ClaimAfterPrevious(r) \/ Step(r)

\* the same handlers, with attempts issued strictly one after the other
SpecSeq == Init /\ [][NextSeq]_vars

(***************************************************************************)
(* What the formulas below speak about.                                    *)
(***************************************************************************)
TheKey == CHOOSE k \in Keys : TRUE

RowsOf(k) == Matching(ledger, k)

RowDone(k) == \E row \in RowsOf(k) : row.status = "done"

RowStatus(sess, k) ==
    IF Matching(sess, k) = {} THEN "absent"
    ELSE (CHOOSE row \in Matching(sess, k) : TRUE).status

\* the lines of the body that carry a record
RecordLines == {i \in 1..Len(body) : body[i] = "rec"}

Copies(k, i) == CopiesIn(Doc(k, i), store)

DupResponse(k) ==
    [status |-> 200, ok |-> TRUE, inserted |-> 0, duplicate |-> TRUE,
     next_expected_seq |-> k.seq + 1]

(***************************************************************************)
(* C1. Retried after failures (storage error or malformed line, possibly   *)
(* after some batches were flushed), with attempts issued one after the    *)
(* other and the same tuple and body, the record store holds each record   *)
(* of the chunk exactly once: never twice, and once when the row is done.  *)
(* Stated for the runs in which no server process died (those are C3).     *)
(***************************************************************************)
C1_ExactlyOnceUnderRetry ==
    (\A r \in Requests : pc[r] # "crashed") =>
        /\ \A i \in RecordLines : Copies(TheKey, i) <= 1
        /\ RowDone(TheKey) => \A i \in RecordLines : Copies(TheKey, i) = 1

(***************************************************************************)
(* C2. Once a request for the tuple has completed with its row done, every *)
(* later request for the tuple is answered ok=true, inserted=0,            *)
(* duplicate=true, next_expected_seq=seq+1, and never gets to the ingest   *)
(* (it changes neither the record store nor the ledger).                   *)
(***************************************************************************)
C2_LaterRequestIsDuplicate ==
    \A r \in Requests :
        late[r] =>
            /\ pc[r] \in {"readback", "dup", "crashed"}
            /\ pc[r] = "dup" => resp[r] = DupResponse(hdr[r])

(***************************************************************************)
(* C3. A request that died after claiming (row left in_progress, possibly  *)
(* after flushed batches) and is then resent: once the resend has made the *)
(* row done, each record of the chunk is in the store exactly once.        *)
(* Stated for the runs whose only incidents are such deaths.               *)
(***************************************************************************)
C3_CrashResumeExactlyOnce ==
    /\ \E r \in Requests : pc[r] = "crashed"
    /\ \A r \in Requests : pc[r] \notin {"rollback", "failed"}
    /\ RowDone(TheKey)
    => \A i \in RecordLines : Copies(TheKey, i) = 1

(***************************************************************************)
(* C4. Of concurrent requests for one tuple with the same body, exactly    *)
(* one performs the bulk write, and no record of the chunk is in the store *)
(* more than once. Stated for the runs in which nothing fails or dies, so  *)
(* that only the overlap of requests is at stake.                          *)
(***************************************************************************)
C4_OneWriterAmongConcurrent ==
    (\A r \in Requests : pc[r] \notin {"rollback", "failed", "crashed"}) =>
        /\ Cardinality({r \in Requests :
                            inserted[r] > 0 \/ resp[r].inserted > 0}) <= 1
        /\ \A i \in RecordLines : Copies(TheKey, i) <= 1

(***************************************************************************)
(* C5. A ledger row only moves absent -> in_progress, in_progress -> done, *)
(* in_progress -> absent; a done row is never modified and never deleted.  *)
(***************************************************************************)
C5_RowTransitions ==
    [][\A k \in Keys :
          LET a == RowStatus(ledger, k)
              b == RowStatus(ledger', k)
          IN  /\ a = "absent" => b \in {"absent", "in_progress"}
              /\ a = "in_progress" => b \in {"in_progress", "done", "absent"}
              /\ a = "done" => Matching(ledger', k) = Matching(ledger, k)]_vars

(***************************************************************************)
(* C6. At most one ledger row exists for each (producer, key, seq).        *)
(***************************************************************************)
C6_OneRowPerTuple ==
    \A k \in Keys : Cardinality(RowsOf(k)) <= 1

\* a second request met the row of the first (E11000) while the first runs
C6_Witness ==
    \E r, q \in Requests :
        /\ r # q
        /\ pc[r] = "ingest" /\ pc[q] = "readback"
        /\ Cardinality(RowsOf(TheKey)) = 1

(***************************************************************************)
(* C7. When a request holding the claim fails during parse or bulk insert  *)
(* (malformed line: 400, storage error: 500), the row of its tuple is gone *)
(* when the failure is reported, so the next identical request inserts a   *)
(* fresh in_progress row instead of meeting E11000.                        *)
(***************************************************************************)
C7_RollbackBeforeFailure ==
    [][\A r \in Requests :
          (pc[r] # "failed" /\ pc'[r] = "failed") =>
              /\ resp'[r].status \in {400, 500}
              /\ Matching(ledger', hdr[r]) = {}
              /\ ~DuplicateKey(ledger', hdr[r])]_vars

\* a request failed on a storage error and a later one, claiming afresh,
\* ran to completion
C7_Witness ==
    \E r, q \in Requests :
        /\ pc[r] = "failed" /\ resp[r].status = 500
        /\ pc[q] = "ok"
        /\ \E row \in RowsOf(TheKey) : row.id = q /\ row.status = "done"

(***************************************************************************)
(* C8. A row is done only after every bulk write of the request returned:  *)
(* when the row is done the store holds every record of the chunk at least *)
(* once, and the success response carries the number of records inserted   *)
(* and next_expected_seq = seq + 1.                                        *)
(***************************************************************************)
C8_DoneImpliesStored ==
    /\ \A k \in Keys :
          RowDone(k) =>
              /\ \A i \in RecordLines : Copies(k, i) >= 1
              /\ \A row \in RowsOf(k) : row.inserted = Cardinality(RecordLines)
    /\ \A r \in Requests :
          pc[r] = "ok" =>
              /\ resp[r].status = 200 /\ resp[r].ok /\ ~resp[r].duplicate
              /\ resp[r].inserted = Cardinality(RecordLines)
              /\ resp[r].next_expected_seq = hdr[r].seq + 1
              /\ \A i \in RecordLines : Copies(hdr[r], i) >= 1

\* a chunk flushed in more than one batch is done
C8_Witness ==
    /\ RowDone(TheKey)
    /\ \E r \in Requests : pc[r] = "ok" /\ resp[r].inserted > BULK_MAX_OPS


(***************************************************************************)
(* ingest_status                                                           *)
(***************************************************************************)
MaxInt(a, b) == IF a >= b THEN a ELSE b

\* sorted(...) of the seqs of a set of rows (the unique index leaves no two
\* rows of one producer and key with the same seq)
RECURSIVE sorted(_)
sorted(S) ==
    IF S = {} THEN <<>>
    ELSE LET m == CHOOSE x \in S : \A y \in S : x <= y
         IN  <<m>> \o sorted(S \ {m})

\* Python's max() and min() of a non-empty list
RECURSIVE max(_)
max(q) == IF Len(q) = 1 THEN q[1] ELSE MaxInt(q[1], max(Tail(q)))

RECURSIVE min(_)
min(q) == IF Len(q) = 1 THEN q[1]
          ELSE LET m == min(Tail(q)) IN IF q[1] <= m THEN q[1] ELSE m

\* range(n) as a list
range(n) == [i \in 1..MaxInt(n, 0) |-> i - 1]

\* the next seq taken from the number of done rows instead of the largest
next_seq_by_count(done, in_prog) ==
    IF done # <<>> THEN Len(done)
    ELSE IF in_prog # <<>> THEN min(in_prog) ELSE 0

\* line 893
next_seq(done, in_prog) ==
    IF done # <<>> THEN max(done) + 1
    ELSE IF in_prog # <<>> THEN min(in_prog) ELSE 0

\* lines 896-897
missing_seqs(done) ==
    LET max_seq == IF done # <<>> THEN max(done) ELSE -1
        in_done(x) == \E i \in 1..Len(done) : done[i] = x
    IN  SelectSeq(range(max_seq + 1), LAMBDA x : ~in_done(x))

\* lines 881-904
ingest_status(sess, publisher_email, idem_key) ==
    LET records == {row \in sess : /\ row.publisher_email = publisher_email
                                   /\ row.idempotency_key = idem_key}
        done == sorted({row.seq : row \in {x \in records : x.status = "done"}})
        in_prog == sorted({row.seq :
                            row \in {x \in records : x.status = "in_progress"}})
    IN  IF records = {}
        THEN [next_expected_seq |-> 0, processed |-> <<>>,
              in_progress |-> <<>>, missing |-> <<>>, asked |-> TRUE]
        ELSE [next_expected_seq |-> next_seq(done, in_prog),
              processed |-> done,
              in_progress |-> in_prog,
              missing |-> missing_seqs(done),
              asked |-> TRUE]

\* a row of the ledger as a request leaves it
Row(p, key, seq, st) ==
    [id |-> seq + 1, publisher_email |-> p, idempotency_key |-> key,
     seq |-> seq, status |-> st, inserted |-> 0]

\* the ledgers the status query is put to: any mix of absent, in_progress
\* and done rows of (p1, k1) over the seqs 0..MaxStatusSeq, beside rows of
\* another producer and of another key
StatusLedgers ==
    {{Row("p1", "k1", x, f[x]) : x \in {y \in 0..MaxStatusSeq : f[y] # "absent"}}
        \cup other :
     f \in [0..MaxStatusSeq -> {"absent", "in_progress", "done"}],
     other \in SUBSET {Row("p2", "k1", MaxStatusSeq + 1, "done"),
                       Row("p1", "k2", 0, "in_progress")}}

InitStatus ==
    /\ ledger \in StatusLedgers
    /\ store = EmptyBag
    /\ InitRequests
    /\ body = [i \in 1..MaxLines |-> "rec"]
    /\ InitClient
    /\ NoConversion
    /\ NoScan
    /\ status_out = NoStatus

\* GET /ingest/status?idempotency_key=k1 by producer p1
AskStatus ==
    /\ status_out' = ingest_status(ledger, "p1", "k1")
    /\ UNCHANGED <<serverVars, clientVars, convVars, decVars>>

SpecStatus == InitStatus /\ [][AskStatus]_vars

(***************************************************************************)
(* C9. ingest_status over the rows of one (producer, key): processed and   *)
(* in_progress are the sorted done / in_progress seqs, missing is every    *)
(* seq of 0..max(done) that is not done, next_expected_seq is max(done)+1  *)
(* when a row is done, else the smallest in_progress seq, else 0.          *)
(***************************************************************************)
DoneSeqs ==
    {row.seq : row \in {x \in ledger : /\ x.publisher_email = "p1"
                                       /\ x.idempotency_key = "k1"
                                       /\ x.status = "done"}}

InProgressSeqs ==
    {row.seq : row \in {x \in ledger : /\ x.publisher_email = "p1"
                                       /\ x.idempotency_key = "k1"
                                       /\ x.status = "in_progress"}}

\* q lists exactly the members of S, in strictly increasing order
ListsSorted(q, S) ==
    /\ Len(q) = Cardinality(S)
    /\ {q[i] : i \in 1..Len(q)} = S
    /\ \A i, j \in 1..Len(q) : i < j => q[i] < q[j]

Greatest(S) == CHOOSE x \in S : \A y \in S : y <= x
Least(S) == CHOOSE x \in S : \A y \in S : x <= y

C9_StatusReport ==
    status_out.asked =>
        /\ ListsSorted(status_out.processed, DoneSeqs)
        /\ ListsSorted(status_out.in_progress, InProgressSeqs)
        /\ ListsSorted(status_out.missing,
                       IF DoneSeqs = {} THEN {}
                       ELSE (0..Greatest(DoneSeqs)) \ DoneSeqs)
        /\ status_out.next_expected_seq =
               IF DoneSeqs # {} THEN Greatest(DoneSeqs) + 1
               ELSE IF InProgressSeqs # {} THEN Least(InProgressSeqs)
               ELSE 0

\* the example of the specification: done = [0,1,3]
C9_Witness ==
    /\ status_out.asked
    /\ DoneSeqs = {0, 1, 3}
    /\ status_out.processed = <<0, 1, 3>>
    /\ status_out.missing = <<2>>
    /\ status_out.next_expected_seq = 4


(***************************************************************************)
(* json_to_ndjson_chunks.main(): the resolution of resume_from             *)
(***************************************************************************)
\* Python's (resume_from or 0)
OrZero(x) == IF x.some THEN x.val ELSE 0

\* lines 265-270: last = -1; for each line: last = max(last, int(rec["seq"]))
RECURSIVE last_ok(_, _)
last_ok(last, log) ==
    IF log = <<>> THEN last
    ELSE last_ok(MaxInt(last, Head(log)), Tail(log))

\* the local log read also under --no-resume-local
local_resume_forced(rf, use_local, log) ==
    LET last == last_ok(-1, log)
    IN  IF last >= 0 THEN Some(MaxInt(OrZero(rf), last + 1)) ELSE rf

\* lines 263-275: progress.jsonl exists (it is touched at lines 177-181), so
\* the local log is read whenever --no-resume-local is not given
local_resume(rf, use_local, log) ==
    IF use_local
    THEN LET last == last_ok(-1, log)
         IN  IF last >= 0 THEN Some(MaxInt(OrZero(rf), last + 1)) ELSE rf
    ELSE rf

\* the server's answer replacing the local watermark instead of joining it
auto_resume_server_wins(rf, srv, chunks) == Some(srv)

\* lines 291-310: the server's next_expected_seq joins in
auto_resume(rf, srv, chunks) ==
    LET rf1 == IF ~rf.some THEN Some(srv) ELSE Some(MaxInt(rf.val, srv))
    IN  IF OrZero(rf1) = 0 /\ srv = 0 THEN Some(0)
        ELSE IF rf1.val = 0 /\ srv > 0
             THEN LET local_last == IF chunks = <<>> THEN -1 ELSE max(chunks)
                  IN  IF local_last >= 0 THEN Some(local_last + 1) ELSE rf1
             ELSE rf1

\* lines 277-291: the status endpoint is asked (curl -sS ...?idempotency_key=)
\* under --auto-resume and in no other case
status_query(a) ==
    IF a.auto_resume THEN [NoStatus EXCEPT !.asked = TRUE] ELSE NoStatus

\* lines 260-310
resolve_resume(a, log, srv, chunks) ==
    LET rf == local_resume(a.resume_from, ~a.no_resume_local, log)
    IN  IF a.auto_resume THEN auto_resume(rf, srv, chunks) ELSE rf

\* the plan without the filter of lines 314-316
plan_upload_all(chunks, rf) == chunks

\* lines 313-316
plan_upload(chunks, rf) ==
    IF rf.some THEN SelectSeq(chunks, LAMBDA c : c >= OrZero(rf)) ELSE chunks

\* the command lines considered
ArgSets ==
    [resume_from : {None} \cup {Some(n) : n \in 0..MaxSeq},
     no_resume_local : BOOLEAN,
     auto_resume : BOOLEAN]

\* a manifest of n chunks, seq 0..n-1 (start_seq 0)
Manifests == {[i \in 1..n |-> i - 1] : n \in 0..(MaxSeq + 1)}

\* the progress logs: up to MaxLog lines, each naming a chunk of the manifest
LogsOver(chunks) ==
    UNION {[1..n -> {chunks[i] : i \in 1..Len(chunks)}] : n \in 0..MaxLog}

InitResume ==
    /\ InitServer
    /\ body = [i \in 1..MaxLines |-> "rec"]
    /\ status_out = NoStatus
    /\ args \in ArgSets
    /\ manifest \in Manifests
    /\ progress \in LogsOver(manifest)
    /\ srv_next \in 0..(MaxSeq + 1)
    /\ upc = "start"
    /\ resume_from = None
    /\ upload_chunks = <<>>
    /\ InitRun
    /\ NoConversion
    /\ NoScan

\* lines 260-319: main() resolves resume_from and plans the upload
ResolveResume ==
    /\ upc = "start"
    /\ tool = "chunks"
    /\ resume_from' = resolve_resume(args, progress, srv_next, manifest)
    /\ upload_chunks' = plan_upload(manifest, resume_from')
    /\ status_out' = status_query(args)
    /\ upc' = "planned"
    /\ UNCHANGED <<serverVars, convVars, decVars, args, progress, manifest, chunk_gzip, srv_next, runVars>>

SpecResume == InitResume /\ [][ResolveResume]_vars

(***************************************************************************)
(* C10. With no --resume-from, local resume on, a non-empty progress log   *)
(* whose highest seq is L, and auto-resume answered next_expected_seq = S, *)
(* the effective resume_from is max(L+1, S): never below L+1 nor below S.  *)
(***************************************************************************)
LoggedSeqs == {progress[i] : i \in 1..Len(progress)}

C10_Case ==
    /\ upc = "planned"
    /\ ~args.resume_from.some
    /\ ~args.no_resume_local
    /\ args.auto_resume
    /\ progress # <<>>

C10_ResumeIsMaxOfWatermarks ==
    C10_Case =>
        LET L == Greatest(LoggedSeqs)
        IN  /\ resume_from.some
            /\ resume_from.val >= L + 1
            /\ resume_from.val >= srv_next
            /\ resume_from.val \in {L + 1, srv_next}

\* the local watermark is ahead of the server's and wins
C10_Witness ==
    /\ C10_Case
    /\ Greatest(LoggedSeqs) + 1 > srv_next
    /\ srv_next > 0
    /\ resume_from = Some(Greatest(LoggedSeqs) + 1)


(***************************************************************************)
(* C11. An explicit --resume-from s has the highest priority: the          *)
(* effective resume_from is exactly s and exactly the manifest chunks with *)
(* seq >= s are uploaded, whatever the progress log holds and whatever     *)
(* next_expected_seq the server reports.                                   *)
(***************************************************************************)
C11_Case ==
    /\ upc = "planned"
    /\ args.resume_from.some

C11_ExplicitResumeWins ==
    C11_Case =>
        /\ resume_from = args.resume_from
        /\ upload_chunks =
              SelectSeq(manifest, LAMBDA c : c >= args.resume_from.val)


(***************************************************************************)
(* The upload loops: json_to_ndjson_chunks.main() lines 322-367 with       *)
(* --exec-curl, and force_submit_from_n.main() lines 27-74.                *)
(***************************************************************************)
\* number of uploader runs (a run ends by finishing, aborting or dying)
MaxRuns == 3
\* number of chunks of the manifest the runs upload
MaxChunks == 2

\* the seq of the loop variable c
Cur == upload_chunks[idx]

\* the command lines of force_submit_from_n (lines 8-13)
ForceArgSets ==
    [start_at : 0..MaxChunks,
     limit : {None} \cup {Some(n) : n \in 0..MaxChunks},
     continue_on_error : BOOLEAN,
     idem_key : {"", "k2"}]

\* those without --idem-key: the requests go under the manifest's key
OwnKeyForceArgs == {f \in ForceArgSets : f.idem_key = ""}

\* the command lines of json_to_ndjson_chunks for a manifest of MaxChunks chunks
ChunksArgSets ==
    [resume_from : {None} \cup {Some(n) : n \in 0..MaxChunks},
     no_resume_local : BOOLEAN,
     auto_resume : BOOLEAN]

\* the plan without --limit
force_plan_unlimited(chunks, a) ==
    LET ordered == sorted({chunks[i] : i \in 1..Len(chunks)})
    IN  SelectSeq(ordered, LAMBDA c : c >= a.start_at)

\* force_submit_from_n.py lines 27-30: sorted by seq, seq >= --start-at,
\* then the first --limit of them
force_plan(chunks, a) ==
    LET ordered == sorted({chunks[i] : i \in 1..Len(chunks)})
        from == SelectSeq(ordered, LAMBDA c : c >= a.start_at)
    IN  IF a.limit.some
        THEN SubSeq(from, 1, IF a.limit.val < Len(from) THEN a.limit.val ELSE Len(from))
        ELSE from

\* the line for a chunk that is never written
append_progress_skipped(log, seq) == log

\* lines 361-364: one line {"seq", "path", "ts"} appended, flushed and synced
append_progress(log, seq) == Append(log, seq)

\* main() is left (return, SystemExit, sys.exit or the death of the process):
\* its locals, the status answer it had read and its curl child are gone
Exit(how) ==
    /\ upc' = how
    /\ tool' = "chunks"
    /\ args' = [resume_from |-> None, no_resume_local |-> FALSE, auto_resume |-> FALSE]
    /\ srv_next' = 0
    /\ resume_from' = None
    /\ upload_chunks' = <<>>
    /\ idx' = 1
    /\ curl' = {}
    /\ sent' = <<>>
    /\ conn' = 0
    /\ n_sent' = 0
    /\ oks' = {}
    /\ status_out' = NoStatus

\* progress.jsonl opened for writing from its start
touch_truncating(log) == <<>>

\* lines 176-181: progress_path.open("a"), pf.write(""): the file is created
\* when it is not there, and left as it is otherwise
touch(log) == log

\* a run of tool t with command line a begins; s is what the status endpoint
\* will answer (read at lines 285-291, with --auto-resume only)
StartRun(t, a, s) ==
    /\ upc \in {"done", "aborted", "dead"}
    /\ runs' = runs + 1
    /\ tool' = t
    /\ args' = a
    /\ srv_next' = s
    /\ upc' = "start"
    /\ resume_from' = None
    /\ upload_chunks' = <<>>
    /\ idx' = 1
    /\ curl' = {}
    /\ sent' = <<>>
    /\ conn' = 0
    /\ answer' = NoAnswer
    /\ n_sent' = 0
    /\ oks' = {}
    /\ progress' = IF t = "chunks" THEN touch(progress) ELSE progress
    /\ UNCHANGED <<manifest, chunk_gzip, got2xx, watch>>

\* force_submit_from_n.py lines 27-32
ForcePlan ==
    /\ upc = "start"
    /\ tool = "force"
    /\ upload_chunks' = force_plan(manifest, args)
    /\ upc' = "planned"
    /\ UNCHANGED <<serverVars, convVars, decVars, status_out, args, progress, manifest, chunk_gzip, srv_next,
                   resume_from, runVars>>

\* lines 331-349 (force: 34-55): the next chunk of the loop, curl is started
StartCurl ==
    /\ upc = "planned"
    /\ idx <= Len(upload_chunks)
    /\ curl' = curl \cup {Cur}
    /\ sent' = Append(sent, Cur)
    /\ upc' = "waiting"
    /\ answer' = NoAnswer
    /\ UNCHANGED <<serverVars, convVars, decVars, status_out, args, progress, manifest,
                   chunk_gzip, srv_next, resume_from, upload_chunks, tool, idx,
                   got2xx, runs, conn, watch, n_sent, oks>>

\* the for loop is exhausted and main() returns
EndOfLoop ==
    /\ upc = "planned"
    /\ idx > Len(upload_chunks)
    /\ Exit("done")
    /\ answer' = NoAnswer
    /\ UNCHANGED <<serverVars, convVars, decVars, progress, manifest,
                   chunk_gzip, got2xx, runs, watch>>

\* what a curl child can end with: the status of its -w line (0: no status
\* was received, curl prints 000) and its exit code.  With --fail (force:
\* --fail-with-body) a status of 400 or more makes curl exit with 22; an
\* exit code 56 is a transfer that broke after the status line, 7 a
\* connection that was never made.
CurlOutcomes ==
    {[status |-> 200, rc |-> 0], [status |-> 200, rc |-> 56],
     [status |-> 302, rc |-> 0], [status |-> 500, rc |-> 22],
     [status |-> 0, rc |-> 7]}

\* line 356 (force: 62): line.startswith("HTTP_STATUS=2")
is2xx(status) == status \div 100 = 2

\* the exit code of curl alone decides
upload_ok_by_exit(o) == o.rc = 0

\* lines 353-359 (force: 56-65): a 2xx status line was read and ret == 0
upload_ok(o) == is2xx(o.status) /\ o.rc = 0

\* every chunk attempted is counted
count_all(n, ok) == n + 1

\* force_submit_from_n.py lines 65-72: sent += 1 on a success only
count_sent(n, ok) == IF ok THEN n + 1 ELSE n

\* lines 350-360: curl's output is read to its end and the child is waited
\* for; o is what it ended with.  A failure raises SystemExit (exit code 1).
ChunksCurlExit(o) ==
    /\ upc = "waiting"
    /\ tool = "chunks"
    /\ answer' = o
    /\ got2xx' = IF is2xx(o.status) THEN got2xx \cup {Cur} ELSE got2xx
    /\ IF upload_ok(o)
       THEN /\ upc' = "record"
            /\ curl' = curl \ {Cur}
            /\ conn' = 0
            /\ oks' = oks \cup {Cur}
            /\ UNCHANGED <<args, srv_next, resume_from, upload_chunks, tool, idx, sent,
                           n_sent, status_out>>
       ELSE Exit("aborted")
    /\ UNCHANGED <<progress, manifest, chunk_gzip, runs, watch>>

\* a failure never ends the run
stops_never(a) == FALSE

\* force_submit_from_n.py lines 69-70: sys.exit(1) unless --continue-on-error
stops_on_error(a) == ~a.continue_on_error

\* force_submit_from_n.py lines 56-73: sys.exit(1) on a failure unless
\* --continue-on-error; nothing is written to progress.jsonl
ForceCurlExit(o) ==
    /\ upc = "waiting"
    /\ tool = "force"
    /\ answer' = o
    /\ got2xx' = IF is2xx(o.status) THEN got2xx \cup {Cur} ELSE got2xx
    /\ IF upload_ok(o) \/ ~stops_on_error(args)
       THEN /\ idx' = idx + 1
            /\ upc' = "planned"
            /\ curl' = curl \ {Cur}
            /\ conn' = 0
            /\ n_sent' = count_sent(n_sent, upload_ok(o))
            /\ oks' = IF upload_ok(o) THEN oks \cup {Cur} ELSE oks
            /\ UNCHANGED <<args, srv_next, resume_from, upload_chunks, tool, sent,
                           status_out>>
       ELSE Exit("aborted")
    /\ UNCHANGED <<progress, manifest, chunk_gzip, runs, watch>>

\* lines 360-364: the success is recorded before the loop goes on
RecordProgress ==
    /\ upc = "record"
    /\ progress' = append_progress(progress, Cur)
    /\ idx' = idx + 1
    /\ upc' = "planned"
    /\ UNCHANGED <<serverVars, convVars, decVars, status_out, args, manifest, chunk_gzip, srv_next,
                   resume_from, upload_chunks, tool, curl, sent, got2xx, runs,
                   conn, watch, answer, n_sent, oks>>

\* the uploader process is killed (with its curl child), anywhere in main()
Kill ==
    /\ upc \in {"start", "planned", "waiting", "record"}
    /\ Exit("dead")
    /\ watch' = IF upc = "record"
                THEN [some |-> TRUE, val |-> Cur, run |-> runs]
                ELSE watch
    /\ answer' = NoAnswer
    /\ UNCHANGED <<serverVars, convVars, decVars, progress, manifest,
                   chunk_gzip, got2xx, runs>>

\* a request that never says its body is compressed
headers_no_encoding(t, a, c, gz) ==
    [authorization |-> "Bearer tok",
     idempotency_key |-> IF t = "force" /\ a.idem_key # "" THEN a.idem_key ELSE "k1",
     x_batch_seq |-> c,
     content_encoding |-> {}]

\* lines 330-337 (force: line 23 and lines 38-46): the headers of the request
\* for the chunk of seq c; k1 is manifest["idempotency_key"], tok the
\* --bearer token, and gz the chunk's "gzip" entry
headers(t, a, c, gz) ==
    [authorization |-> "Bearer tok",
     idempotency_key |-> IF t = "force" /\ a.idem_key # "" THEN a.idem_key ELSE "k1",
     x_batch_seq |-> c,
     content_encoding |-> IF gz THEN {"gzip"} ELSE {}]

\* the headers of the request of the running curl
Request == headers(tool, args, Cur, chunk_gzip)

(***************************************************************************)
(* The uploader alone: the server is whatever answers (2xx or not), and    *)
(* reports any next_expected_seq.                                          *)
(***************************************************************************)
UploadStart ==
    /\ InitServer
    /\ body = [i \in 1..MaxLines |-> "rec"]
    /\ status_out = NoStatus
    /\ args = [resume_from |-> None, no_resume_local |-> FALSE, auto_resume |-> FALSE]
    /\ manifest = [i \in 1..MaxChunks |-> i - 1]
    /\ progress = <<>>
    /\ srv_next = 0
    /\ upc = "done"
    /\ resume_from = None
    /\ upload_chunks = <<>>
    /\ tool = "chunks"
    /\ idx = 1
    /\ curl = {}
    /\ sent = <<>>
    /\ got2xx = {}
    /\ runs = 0
    /\ conn = 0
    /\ watch = NoWatch
    /\ answer = NoAnswer
    /\ n_sent = 0
    /\ oks = {}
    /\ NoConversion
    /\ NoScan

\* a manifest of uncompressed chunks
InitUpload == UploadStart /\ chunk_gzip = FALSE

StartChunksRun ==
    /\ runs < MaxRuns
    /\ \E a \in ChunksArgSets :
         \E s \in (IF a.auto_resume THEN 0..MaxChunks ELSE {0}) :
            StartRun("chunks", a, s)
    /\ UNCHANGED <<serverVars, convVars, decVars, status_out>>

StartForceRun ==
    /\ runs < MaxRuns
    /\ \E a \in OwnKeyForceArgs : StartRun("force", a, 0)
    /\ UNCHANGED <<serverVars, convVars, decVars, status_out>>

CurlAnswered ==
    /\ \E o \in CurlOutcomes : ChunksCurlExit(o) \/ ForceCurlExit(o)
    /\ UNCHANGED <<serverVars, convVars, decVars>>

NextUpload ==
    \/ StartChunksRun
    \/ StartForceRun
    \/ ResolveResume
    \/ ForcePlan
    \/ StartCurl
    \/ CurlAnswered
    \/ RecordProgress
    \/ EndOfLoop
    \/ Kill

SpecUpload == InitUpload /\ [][NextUpload]_vars


(***************************************************************************)
(* C12. Within one uploader run (either tool) the upload requests are      *)
(* issued one at a time and in strictly increasing seq order: the requests *)
(* sent so far are the first chunks of the plan, at most one curl is       *)
(* running and it is the last one started, and no chunk below the          *)
(* resolved starting sequence is sent.                                     *)
(***************************************************************************)
C12_OneAtATimeInOrder ==
    /\ Cardinality(curl) <= 1
    /\ curl # {} => Len(sent) > 0 /\ curl = {sent[Len(sent)]}
    /\ \A i, j \in 1..Len(sent) : i < j => sent[i] < sent[j]
    /\ Len(sent) <= Len(upload_chunks)
    /\ sent = SubSeq(upload_chunks, 1, Len(sent))
    /\ \A i \in 1..Len(sent) :
          /\ tool = "chunks" /\ resume_from.some => sent[i] >= resume_from.val
          /\ tool = "force" => sent[i] >= args.start_at

\* a run that resolved its start to 1 has chunk 1 in flight and did not send 0
C12_Witness ==
    /\ tool = "chunks"
    /\ resume_from = Some(1)
    /\ upc = "waiting"
    /\ sent = <<1>>
    /\ curl = {1}

(***************************************************************************)
(* C13. Across uploader runs and crashes, every line of the local progress *)
(* log names a seq for which the uploader read a 2xx answer, and in a run  *)
(* of json_to_ndjson_chunks the lines of the chunks before the current one *)
(* are already in the log (they are its last lines) when the request for   *)
(* the current chunk is sent.                                              *)
(***************************************************************************)
C13_LogNamesConfirmed ==
    /\ \A i \in 1..Len(progress) : progress[i] \in got2xx
    /\ tool = "chunks" =>
          /\ idx - 1 <= Len(progress)
          /\ SubSeq(progress, Len(progress) - idx + 2, Len(progress))
                = SubSeq(upload_chunks, 1, idx - 1)

\* a later run, after a run that died, has logged chunk 0 and waits for the
\* answer to chunk 1
C13_Witness ==
    /\ tool = "chunks"
    /\ runs >= 2
    /\ watch.some
    /\ upc = "waiting"
    /\ idx = 2
    /\ Cur = 1
    /\ progress # <<>>
    /\ progress[Len(progress)] = 0


(***************************************************************************)
(* The uploader against submit_ndjson and ingest_status: every chunk of    *)
(* the manifest is a body of MaxLines records, sent under                  *)
(* (p1, manifest['idempotency_key'], seq).                                 *)
(***************************************************************************)
\* lines 333-334 (force: 42-43): the Idempotency-Key and X-Batch-Seq headers
\* of the request for chunk c, and the producer the bearer token names
ChunkKey(c) ==
    LET h == headers(tool, args, c, chunk_gzip)
    IN  [publisher_email |-> "p1", idempotency_key |-> h.idempotency_key,
         seq |-> h.x_batch_seq]

\* the request of the running curl reaches submit_ndjson (its lines 670-690)
Accept(r) ==
    /\ upc = "waiting"
    /\ conn = 0
    /\ ClaimKey(r, ChunkKey(Cur))
    /\ conn' = r
    /\ UNCHANGED <<convVars, decVars, status_out, args, progress, manifest, chunk_gzip, srv_next, upc,
                   resume_from, upload_chunks, tool, idx, curl, sent, got2xx,
                   runs, watch, answer, n_sent, oks>>

\* curl prints the 200 of the handler that served it
Curl2xx ==
    /\ conn # 0
    /\ pc[conn] \in {"ok", "dup"}
    /\ LET o == [status |-> 200, rc |-> 0]
       IN  ChunksCurlExit(o) \/ ForceCurlExit(o)
    /\ UNCHANGED <<serverVars, convVars, decVars>>

\* curl fails without a status: the connection was lost (before the request
\* arrived, while the handler runs, or with the answer, 200 or an error, on
\* its way), or the handler's process died
CurlFails ==
    /\ LET o == [status |-> 0, rc |-> 7]
       IN  ChunksCurlExit(o) \/ ForceCurlExit(o)
    /\ UNCHANGED <<serverVars, convVars, decVars>>

\* lines 280-291: what GET /ingest/status answers for the manifest's key
StatusNow == ingest_status(ledger, "p1", "k1").next_expected_seq

\* number of uploader runs, of either tool, against the server
MaxSysRuns == 2

StartChunksRunSys ==
    /\ runs < MaxSysRuns
    /\ \E a \in ChunksArgSets :
          StartRun("chunks", a, IF a.auto_resume THEN StatusNow ELSE 0)
    /\ UNCHANGED <<serverVars, convVars, decVars, status_out>>

StartForceRunSys ==
    /\ runs < MaxSysRuns
    /\ \E a \in OwnKeyForceArgs : StartRun("force", a, 0)
    /\ UNCHANGED <<serverVars, convVars, decVars, status_out>>

NextSys ==
    \/ StartChunksRunSys
    \/ StartForceRunSys
    \/ ResolveResume
    \/ ForcePlan
    \/ StartCurl
    \/ \E r \in Requests : Accept(r)
    \/ \E r \in Requests : Step(r)
    \/ Curl2xx
    \/ CurlFails
    \/ RecordProgress
    \/ EndOfLoop
    \/ Kill

\* both tools against the server, under the manifest's idempotency key
SpecSys == InitUpload /\ [][NextSys]_vars

\* json_to_ndjson_chunks with its default flags: local resume only
StartLocalRun ==
    /\ runs < MaxRuns
    /\ StartRun("chunks",
                [resume_from |-> None, no_resume_local |-> FALSE,
                 auto_resume |-> FALSE], 0)
    /\ UNCHANGED <<serverVars, convVars, decVars, status_out>>

NextLocal ==
    \/ StartLocalRun
    \/ ResolveResume
    \/ StartCurl
    \/ \E r \in Requests : Accept(r)
    \/ \E r \in Requests : Step(r)
    \/ Curl2xx
    \/ CurlFails
    \/ RecordProgress
    \/ EndOfLoop
    \/ Kill

\* the uploader always run as `json_to_ndjson_chunks ... --exec-curl`
SpecLocal == InitUpload /\ [][NextLocal]_vars


(***************************************************************************)
(* What the formulas about the uploader and the server speak about.        *)
(***************************************************************************)
ManifestSeqs == {manifest[i] : i \in 1..Len(manifest)}

\* the manifest seqs whose ledger row is not done
Undelivered == {c \in ManifestSeqs : ~RowDone(ChunkKey(c))}

\* the starting sequence of the plan (no filter is a start at 0)
StartSeq(rf) == OrZero(rf)

(***************************************************************************)
(* C15. The starting sequence json_to_ndjson_chunks resolves from the      *)
(* local progress log and, with --auto-resume, from the server's           *)
(* next_expected_seq is never greater than the smallest manifest seq whose *)
(* ledger row is not done: no undelivered chunk is skipped, also after an  *)
(* upload that left a gap in the done sequences.                           *)
(***************************************************************************)
C15_StartNotBeyondUndelivered ==
    [][ResolveResume /\ ~args.resume_from.some =>
          \A c \in Undelivered : StartSeq(resume_from') <= c]_vars


(***************************************************************************)
(* C14. The uploader died after the 2xx answer for chunk k and before the  *)
(* append of k to the progress log.  In the next run with local resume:    *)
(* the resolved start is <= k and k is in the plan (it is sent again); the *)
(* answer of submit_ndjson to that resend is the duplicate response; and   *)
(* once the client has logged k and advanced, the record store holds every *)
(* record of chunk k exactly once.                                         *)
(***************************************************************************)
\* the run that follows the death between the 2xx for watch.val and its line
C14_Case == watch.some /\ runs = watch.run + 1 /\ tool = "chunks"

C14_StartAtOrBelow ==
    C14_Case /\ upc \in {"planned", "waiting", "record"} =>
        /\ StartSeq(resume_from) <= watch.val
        /\ \E i \in 1..Len(upload_chunks) : upload_chunks[i] = watch.val

C14_ResendIsDuplicate ==
    C14_Case /\ upc = "waiting" /\ Cur = watch.val /\ conn # 0
             /\ pc[conn] \in {"ok", "dup", "failed"} =>
        /\ pc[conn] = "dup"
        /\ resp[conn] = DupResponse(ChunkKey(watch.val))

C14_StoredOnce ==
    C14_Case /\ upc = "planned" /\ idx > 1 /\ upload_chunks[idx - 1] = watch.val =>
        /\ progress # <<>> /\ progress[Len(progress)] = watch.val
        /\ \A i \in RecordLines : Copies(ChunkKey(watch.val), i) = 1

C14_ResendAfterLostLogLine ==
    /\ C14_StartAtOrBelow
    /\ C14_ResendIsDuplicate
    /\ C14_StoredOnce


(***************************************************************************)
(* C16. Under fairness (aborted and crashed runs are re-run with local     *)
(* resume, server crashes are followed by a retry, requests get through),  *)
(* eventually every chunk of the manifest has a done ledger row and the    *)
(* record store holds every record of the source exactly once.             *)
(*                                                                         *)
(* Finite-run form: no document is ever removed from the store, so a       *)
(* record stored twice stays stored twice.  If that happens while the last *)
(* chunk of the manifest has not even been requested (so that the goal was *)
(* not reached earlier), the goal is out of reach on every continuation,   *)
(* whatever the scheduling.  The claim therefore requires that, as long as *)
(* the last chunk has not been requested, no record is stored twice.       *)
(***************************************************************************)
AllDone == \A c \in ManifestSeqs : RowDone(ChunkKey(c))

ExactlyOnceAll ==
    \A c \in ManifestSeqs : \A i \in RecordLines : Copies(ChunkKey(c), i) = 1

LastSeq == manifest[Len(manifest)]

LastNeverRequested ==
    \A r \in Requests : pc[r] # "idle" => hdr[r].seq # LastSeq

C16_EventuallyAllExactlyOnce ==
    LastNeverRequested =>
        \A c \in ManifestSeqs : \A i \in RecordLines : Copies(ChunkKey(c), i) <= 1


(***************************************************************************)
(* json_to_ndjson_chunks.main(): the chunking phase (lines 200-258), with  *)
(* write_chunk (122-139) and _save_manifest_atomic (141-145).              *)
(***************************************************************************)
\* number of converter runs on one output directory
MaxConvRuns == 2

\* the records of the model, and the record sequences a decoder can yield
RecordValues == {"a", "b"}
Sources == UNION {[1..n -> RecordValues] : n \in 0..MaxRecords}

\* the command lines considered (--chunk-size, --gzip, --start-seq; no
\* --idem-key, which is "")
ConvArgSets ==
    [chunk_size : 1..MaxChunkSize, gzip : BOOLEAN, start_seq : 0..MaxStartSeq,
     idem_key : {""}]

\* json.dumps(rec, separators=(',', ':'), ensure_ascii=False) + "\n", and the
\* json.loads that reads such a line back
dumps(rec) == [json |-> rec]
loads(line) == line.json

\* hashlib.md5(data).hexdigest()
md5_of_bytes(data) == [md5 |-> data]

\* what gzip.open(path, "wb") stores for the bytes written (the gzip header,
\* then the compressed data), and its reading
gzip_bytes(raw) == <<[json |-> "1f8b"]>> \o raw
gunzip(z) == Tail(z)

\* the NDJSON bytes without the last record
ndjson_truncated(records) == [i \in 1..(Len(records) - 1) |-> dumps(records[i])]

\* write_chunk lines 124-128: raw, one line per record
ndjson(records) == [i \in 1..Len(records) |-> dumps(records[i])]

\* write_chunk lines 129-139: the path written, its bytes, and the dict
\* returned (md5 is taken of raw, compressed or not)
written_path(out_path, gzip_enabled) == chunk_path(out_path.seq, gzip_enabled)

written_bytes(records, gzip_enabled) ==
    IF gzip_enabled THEN gzip_bytes(ndjson(records)) ELSE ndjson(records)

\* the bytes on disk when the writer dies after k lines of raw
partial_bytes(records, gzip_enabled, k) ==
    IF gzip_enabled THEN gzip_bytes(SubSeq(ndjson(records), 1, k))
    ELSE SubSeq(ndjson(records), 1, k)

\* the checksum taken of the bytes of the file written
write_chunk_md5_of_file(records, out_path, gzip_enabled, n) ==
    [path |-> written_path(out_path, gzip_enabled),
     count |-> Len(records),
     md5 |-> md5_of_bytes(written_bytes(records, gzip_enabled)),
     gzip |-> gzip_enabled,
     seq |-> n]

\* lines 133/138 and meta.update({"seq": seq}) of lines 237/247
write_chunk(records, out_path, gzip_enabled, n) ==
    [path |-> written_path(out_path, gzip_enabled),
     count |-> Len(records),
     md5 |-> md5_of_bytes(ndjson(records)),
     gzip |-> gzip_enabled,
     seq |-> n]

\* the flush that waits for one record more than --chunk-size
batch_overfull(b, chunk_size) == Len(b) > chunk_size

\* line 232: len(batch) >= args.chunk_size
batch_full(b, chunk_size) == Len(b) >= chunk_size

\* the manifest written where it is read
in_place(path) == path

\* line 142: tmp = path.with_suffix(".tmp")
with_suffix_tmp(path) == tmp_path

\* a manifest that is never found
exists_never(d, path) == FALSE

\* line 200: manifest_path.exists()
exists(d, path) == d[path].exists

\* main() is left: its locals are gone, and no input is being read
ConvLeave(how) ==
    /\ cpc' = how
    /\ source' = <<>>
    /\ mem' = [start_seq |-> 0, chunks |-> <<>>, total_records |-> None,
              idempotency_key |-> ""]
    /\ iterator' = None
    /\ batch' = <<>>
    /\ total' = 0
    /\ chunk_seq' = 0
    /\ ret' = "none"
    /\ existed' = FALSE

\* the process has ended without a traceback
ConvExit == ConvLeave("off")

\* str(uuid.uuid4()) as the n-th run of the tool draws it: a fresh token
uuid4(n) == <<"u1", "u2", "u3", "u4", "u5", "u6", "u7", "u8">>[n]

\* line 208: idem = args.idem_key or str(uuid.uuid4())
new_idem(a, n) == IF a.idem_key # "" THEN a.idem_key ELSE uuid4(n)

\* a key taken from the command line first, from the manifest otherwise
manifest_key_args_first(m, a) ==
    IF a.idem_key # "" THEN a.idem_key ELSE m.idempotency_key

\* line 333 (and line 372): manifest['idempotency_key']
manifest_key(m, a) == m.idempotency_key

\* line 205: idem = manifest.get("idempotency_key") or args.idem_key or
\* str(uuid.uuid4()), the key of the status query of line 285
idem_reused(m, a, n) ==
    IF m.idempotency_key # "" THEN m.idempotency_key ELSE new_idem(a, n)

\* lines 200-229 for a run with the command line a on input src: an existing
\* manifest is loaded and nothing is decoded, otherwise a new manifest is
\* started
ConvBegin(src, a) ==
    /\ cpc \in {"off", "raised", "raised_partial"}
    /\ cruns < MaxConvRuns
    /\ cruns' = cruns + 1
    /\ source' = src
    /\ existed' = disk[manifest_path].exists
    /\ IF exists(disk, manifest_path)
       THEN /\ mem' = disk[manifest_path].data
            /\ iterator' = None
            /\ cpc' = "chunked"
            /\ UNCHANGED <<batch, total, chunk_seq, produced>>
       ELSE /\ mem' = [start_seq |-> a.start_seq, chunks |-> <<>>,
                       total_records |-> None,
                       idempotency_key |-> new_idem(a, cruns')]
            /\ iterator' = Some(0)
            /\ chunk_seq' = a.start_seq
            /\ batch' = <<>>
            /\ total' = 0
            /\ produced' = <<>>
            /\ cpc' = "loop"
    /\ UNCHANGED <<disk, ret>>
    /\ UNCHANGED <<serverVars, clientVars, status_out, decVars>>

\* a run with the command line the job was started with
ConvStart(src) ==
    /\ ConvBegin(src, cargs)
    /\ UNCHANGED cargs

\* lines 230-232: the iterator yields the next record
Decode ==
    /\ cpc = "loop"
    /\ iterator.val < Len(source)
    /\ iterator' = Some(iterator.val + 1)
    /\ batch' = Append(batch, source[iterator.val + 1])
    /\ IF batch_full(batch', cargs.chunk_size)
       THEN cpc' = "open" /\ ret' = "loop"
       ELSE UNCHANGED <<cpc, ret>>
    /\ UNCHANGED <<source, cargs, disk, mem, total, chunk_seq, existed, produced, cruns>>
    /\ UNCHANGED <<serverVars, clientVars, status_out, decVars>>

\* how main() ends on an exception of the decoder
Raised == {"raised", "raised_partial"}

\* the batch in memory is written out as a last chunk
unwind_flushing(d, b, path, gz) ==
    IF b = <<>> THEN d ELSE [d EXCEPT ![path] = Closed(written_bytes(b, gz))]

\* lines 230-255: the for loop is in no try block, so an exception of the
\* iterator leaves main() from line 230 and nothing of the batch is written
unwind(d, b, path, gz) == d

\* line 230: next(iterator) raises ValueError (iter_json_array lines 27, 51,
\* 56, 79, 84, 94 and 106; json.loads of iter_ndjson at line 115) after the
\* records decoded so far; main() ends with the traceback
\* ("raised_partial": records were waiting in the batch)
DecodeError ==
    /\ cpc = "loop"
    /\ disk' = unwind(disk, batch, written_path(chunk_path(chunk_seq, FALSE), cargs.gzip),
                      cargs.gzip)
    /\ ConvLeave(IF batch = <<>> THEN "raised" ELSE "raised_partial")
    /\ UNCHANGED <<cargs, produced, cruns>>
    /\ UNCHANGED <<serverVars, clientVars, status_out, decVars>>

\* lines 242-243 and 253: the iterator is exhausted
Exhausted ==
    /\ cpc = "loop"
    /\ iterator.val = Len(source)
    /\ IF batch # <<>>
       THEN cpc' = "open" /\ ret' = "final"
       ELSE cpc' = "final" /\ UNCHANGED ret
    /\ UNCHANGED <<source, cargs, disk, mem, iterator, batch, total, chunk_seq,
                   existed, produced, cruns>>
    /\ UNCHANGED <<serverVars, clientVars, status_out, decVars>>

\* the path write_chunk writes for the current seq
Target == written_path(chunk_path(chunk_seq, FALSE), cargs.gzip)

\* write_chunk lines 131/136: the chunk file is opened for writing
OpenChunk ==
    /\ cpc = "open"
    /\ disk' = [disk EXCEPT ![Target] = Partial(partial_bytes(batch, cargs.gzip, 0))]
    /\ cpc' = "writing"
    /\ UNCHANGED <<source, cargs, mem, iterator, batch, total, chunk_seq, ret,
                   existed, produced, cruns>>
    /\ UNCHANGED <<serverVars, clientVars, status_out, decVars>>

\* write_chunk lines 132-139 and main() lines 237-241 (245-249): the bytes
\* are written and the file closed, the returned dict joins manifest["chunks"]
WriteChunk ==
    /\ cpc = "writing"
    /\ disk' = [disk EXCEPT ![Target] = Closed(written_bytes(batch, cargs.gzip))]
    /\ LET meta == write_chunk(batch, chunk_path(chunk_seq, FALSE), cargs.gzip, chunk_seq)
       IN  /\ mem' = [mem EXCEPT !.chunks = Append(@, meta)]
           /\ produced' = Append(produced, meta)
    /\ total' = total + Len(batch)
    /\ batch' = IF ret = "loop" THEN <<>> ELSE batch
    /\ chunk_seq' = chunk_seq + 1
    /\ cpc' = "save"
    /\ UNCHANGED <<source, cargs, iterator, ret, existed, cruns>>
    /\ UNCHANGED <<serverVars, clientVars, status_out, decVars>>

\* the process is killed inside f.write(raw): k lines reached the file
DieInWrite ==
    /\ cpc = "writing"
    /\ \E k \in 0..Len(ndjson(batch)) :
          disk' = [disk EXCEPT ![Target] = Partial(partial_bytes(batch, cargs.gzip, k))]
    /\ ConvExit
    /\ UNCHANGED <<cargs, produced, cruns>>
    /\ UNCHANGED <<serverVars, clientVars, status_out, decVars>>

\* _save_manifest_atomic lines 142-143: the temporary file is opened
OpenTmp ==
    /\ cpc = "save"
    /\ disk' = [disk EXCEPT ![with_suffix_tmp(manifest_path)] = Partial(<<>>)]
    /\ cpc' = "dump"
    /\ UNCHANGED <<source, cargs, mem, iterator, batch, total, chunk_seq, ret,
                   existed, produced, cruns>>
    /\ UNCHANGED <<serverVars, clientVars, status_out, decVars>>

\* _save_manifest_atomic line 144: json.dump(data, mf) and the close
DumpTmp ==
    /\ cpc = "dump"
    /\ disk' = [disk EXCEPT ![with_suffix_tmp(manifest_path)] = Closed(mem)]
    /\ cpc' = "replace"
    /\ UNCHANGED <<source, cargs, mem, iterator, batch, total, chunk_seq, ret,
                   existed, produced, cruns>>
    /\ UNCHANGED <<serverVars, clientVars, status_out, decVars>>

\* _save_manifest_atomic line 145: tmp.replace(path)
Replace ==
    /\ cpc = "replace"
    /\ LET tmp == with_suffix_tmp(manifest_path)
       IN  disk' = IF tmp = manifest_path THEN disk
                   ELSE [disk EXCEPT ![manifest_path] = disk[tmp], ![tmp] = Absent]
    /\ cpc' = ret
    /\ UNCHANGED <<source, cargs, mem, iterator, batch, total, chunk_seq, ret,
                   existed, produced, cruns>>
    /\ UNCHANGED <<serverVars, clientVars, status_out, decVars>>

\* lines 251-253: the totals are set and the manifest saved once more
SetTotals ==
    /\ cpc = "final"
    /\ mem' = [mem EXCEPT !.total_records = Some(total)]
    /\ cpc' = "save"
    /\ ret' = "chunked"
    /\ UNCHANGED <<source, cargs, disk, iterator, batch, total, chunk_seq,
                   existed, produced, cruns>>
    /\ UNCHANGED <<serverVars, clientVars, status_out, decVars>>

\* the chunking phase is over and the run ends
ConvReturn ==
    /\ cpc = "chunked"
    /\ ConvExit
    /\ UNCHANGED <<cargs, disk, produced, cruns>>
    /\ UNCHANGED <<serverVars, clientVars, status_out, decVars>>

\* the process is killed between two file operations
ConvKill ==
    /\ cpc \notin {"off", "raised", "raised_partial", "chunked"}
    /\ ConvExit
    /\ UNCHANGED <<cargs, disk, produced, cruns>>
    /\ UNCHANGED <<serverVars, clientVars, status_out, decVars>>

InitConvert ==
    /\ InitServer
    /\ body = [i \in 1..MaxLines |-> "rec"]
    /\ InitClient
    /\ status_out = NoStatus
    /\ source = <<>>
    /\ cargs \in ConvArgSets
    /\ cpc = "off"
    /\ disk = [p \in Paths |-> Absent]
    /\ NoLocals
    /\ produced = <<>>
    /\ cruns = 0
    /\ NoScan

NextConvert ==
    \/ \E src \in Sources : ConvStart(src)
    \/ Decode
    \/ DecodeError
    \/ Exhausted
    \/ OpenChunk
    \/ WriteChunk
    \/ DieInWrite
    \/ OpenTmp
    \/ DumpTmp
    \/ Replace
    \/ SetTotals
    \/ ConvReturn
    \/ ConvKill

SpecConvert == InitConvert /\ [][NextConvert]_vars


(***************************************************************************)
(* What the formulas about the converter speak about.                      *)
(***************************************************************************)
ManifestFile == disk[manifest_path]

IsPrefix(p, q) == Len(p) <= Len(q) /\ p = SubSeq(q, 1, Len(p))

\* the NDJSON lines in the file a manifest entry names
RawOf(meta) ==
    IF meta.gzip THEN gunzip(disk[meta.path].data) ELSE disk[meta.path].data

\* the records read back from the file a manifest entry names
ChunkRecords(meta) == [i \in 1..Len(RawOf(meta)) |-> loads(RawOf(meta)[i])]

\* the file of a manifest entry is fully written, with the recorded
\* checksum and count
ChunkOnDisk(meta) ==
    /\ disk[meta.path].exists
    /\ disk[meta.path].closed
    /\ md5_of_bytes(RawOf(meta)) = meta.md5
    /\ Len(RawOf(meta)) = meta.count

\* the records of a list of manifest entries, taken in increasing seq
RECURSIVE RecordsBySeq(_, _)
RecordsBySeq(chunks, seqs) ==
    IF seqs = <<>> THEN <<>>
    ELSE LET i == CHOOSE j \in 1..Len(chunks) : chunks[j].seq = Head(seqs)
         IN  ChunkRecords(chunks[i]) \o RecordsBySeq(chunks, Tail(seqs))

ManifestRecords ==
    LET chunks == ManifestFile.data.chunks
    IN  RecordsBySeq(chunks, sorted({chunks[i].seq : i \in 1..Len(chunks)}))

\* a run that found no manifest has decoded its whole input and saved the
\* final manifest
Converted == cpc = "chunked" /\ ~existed

(***************************************************************************)
(* C17. Wherever the conversion is killed (in a chunk file write, between  *)
(* the chunk write and the manifest rewrite, in the write of the temporary *)
(* manifest, before or after the rename), manifest.json is either absent   *)
(* or a complete manifest whose chunk list is a prefix of the chunks       *)
(* produced, each of them fully written with the recorded checksum and     *)
(* count.                                                                  *)
(***************************************************************************)
C17_ManifestAbsentOrComplete ==
    ManifestFile.exists =>
        /\ ManifestFile.closed
        /\ IsPrefix(ManifestFile.data.chunks, produced)
        /\ \A i \in 1..Len(ManifestFile.data.chunks) :
              ChunkOnDisk(ManifestFile.data.chunks[i])

\* killed in the write of the temporary manifest, after the second chunk was
\* written: manifest.json still lists the first chunk only
C17_Witness ==
    /\ cpc = "off"
    /\ disk[tmp_path].exists
    /\ ~disk[tmp_path].closed
    /\ ManifestFile.exists
    /\ Len(ManifestFile.data.chunks) = 1
    /\ Len(produced) = 2

(***************************************************************************)
(* C18. A run that finds manifest.json in the output directory does not    *)
(* run the decoder or the chunk writer: no step of it yields a record,     *)
(* writes a chunk file, or changes the chunk list of the manifest, also    *)
(* when its input differs from the one that was chunked.                   *)
(***************************************************************************)
C18_ExistingManifestKept ==
    [][existed =>
          /\ iterator' = None
          /\ \A p \in ChunkPaths : disk'[p] = disk[p]
          /\ disk'[manifest_path].exists
          /\ disk'[manifest_path].data.chunks = disk[manifest_path].data.chunks]_vars

\* a run over another input has loaded the manifest of the first one
C18_Witness ==
    /\ existed
    /\ cpc = "chunked"
    /\ mem.chunks # <<>>
    /\ mem.chunks = ManifestFile.data.chunks
    /\ ManifestRecords # source


(***************************************************************************)
(* C19. After a complete conversion of n records with chunk size c >= 1    *)
(* and starting offset s, the manifest's chunks carry the seqs s, s+1, ... *)
(* s+ceil(n/c)-1 in the order produced, without gap or repeat; every chunk *)
(* but the last holds exactly c records and the last holds 1..c records;   *)
(* an empty input yields no chunk.                                         *)
(***************************************************************************)
CeilDiv(n, c) == (n + c - 1) \div c

C19_SeqsAndSizes ==
    Converted =>
        LET chunks == ManifestFile.data.chunks
            n == Len(source)
            c == cargs.chunk_size
            s == cargs.start_seq
        IN  /\ Len(chunks) = CeilDiv(n, c)
            /\ n = 0 => chunks = <<>>
            /\ ManifestFile.data.total_records = Some(n)
            /\ \A i \in 1..Len(chunks) :
                  /\ chunks[i].seq = s + i - 1
                  /\ chunks[i].count = Len(ChunkRecords(chunks[i]))
                  /\ i < Len(chunks) => chunks[i].count = c
                  /\ i = Len(chunks) => chunks[i].count \in 1..c

\* chunk size 2 and three records: seq 0 holds records 1-2, seq 1 record 3
C19_Witness ==
    /\ Converted
    /\ cargs.chunk_size = 2
    /\ cargs.start_seq = 0
    /\ Len(source) = 3
    /\ Len(ManifestFile.data.chunks) = 2
    /\ ManifestFile.data.chunks[1].seq = 0
    /\ ChunkRecords(ManifestFile.data.chunks[1]) = SubSeq(source, 1, 2)
    /\ ManifestFile.data.chunks[2].seq = 1
    /\ ChunkRecords(ManifestFile.data.chunks[2]) = SubSeq(source, 3, 3)

(***************************************************************************)
(* C20. For every record sequence the decoder yields and every chunk size, *)
(* with or without compression, the records of the manifest's chunks       *)
(* concatenated in seq order are exactly that sequence: none lost,         *)
(* duplicated or reordered across chunk boundaries.                        *)
(***************************************************************************)
C20_ChunksConcatenateToSource ==
    Converted => ManifestRecords = source

\* three records, not all equal, compressed into two chunks
C20_Witness ==
    /\ Converted
    /\ cargs.gzip
    /\ cargs.chunk_size = 2
    /\ source = <<"a", "b", "a">>
    /\ Len(ManifestFile.data.chunks) = 2
    /\ ManifestRecords = source


(***************************************************************************)
(* iter_json_array (json_to_ndjson_chunks.py lines 15-107): the generator  *)
(* that reads the input file one character at a time.  A character is a    *)
(* string of length one, the empty string is what f.read(1) returns at the *)
(* end of the file.                                                        *)
(***************************************************************************)
\* number of objects of an input array
MaxObjs == 2

\* the string values of the objects: a plain character, braces, brackets
\* and a comma, a backslash, a quote, and two quotes
StringValues ==
    {<<"a">>, <<"{", "[">>, <<"}", ",", "]">>, <<"\\">>, <<"\"">>, <<"\"", "\"">>}

\* the objects: {"k": s}, and one object nested in another
Objects ==
    {[nest |-> 1, str |-> s] : s \in StringValues} \cup {[nest |-> 2, str |-> <<"}">>]}

\* how the objects are laid out in the file: as a JSON array, compact or
\* with blanks, and as the texts that are no JSON array (a comma before the
\* first object, a comma before the closing bracket, no opening bracket, a
\* character other than '{' after a comma)
Layout(kind) ==
    CASE kind = "array" ->
            [lead |-> <<"[">>, sep |-> <<",">>, trail |-> <<"]">>]
      [] kind = "spaced" ->
            [lead |-> <<" ", "[", " ">>, sep |-> <<" ", ",", " ">>, trail |-> <<" ", "]">>]
      [] kind = "leading_comma" ->
            [lead |-> <<"[", ",">>, sep |-> <<",">>, trail |-> <<"]">>]
      [] kind = "trailing_comma" ->
            [lead |-> <<"[">>, sep |-> <<",">>, trail |-> <<",", " ", "]">>]
      [] kind = "no_bracket" ->
            [lead |-> <<" ">>, sep |-> <<",">>, trail |-> <<"]">>]
      [] kind = "bad_after_comma" ->
            [lead |-> <<"[">>, sep |-> <<",", " ", "a">>, trail |-> <<"]">>]

Kinds == {"array", "spaced", "leading_comma", "trailing_comma", "no_bracket",
          "bad_after_comma"}

\* the objects laid out in the other ways than the compact array
PlainObjects == {[nest |-> 1, str |-> s] : s \in {<<"a">>, <<"}", ",", "]">>}}

Docs ==
    {d \in [objs : UNION {[1..n -> Objects] : n \in 0..MaxObjs}, kind : Kinds,
            cut : {FALSE}] :
        d.kind # "array" => \A i \in 1..Len(d.objs) : d.objs[i] \in PlainObjects}

\* a JSON string body: the quote and the backslash are written escaped
RECURSIVE esc(_)
esc(s) ==
    IF s = <<>> THEN <<>>
    ELSE (IF Head(s) \in {"\"", "\\"} THEN <<"\\", Head(s)>> ELSE <<Head(s)>>)
         \o esc(Tail(s))

\* the JSON text of an object
RECURSIVE json_text(_)
json_text(o) ==
    IF o.nest = 1
    THEN <<"{", "\"", "k", "\"", ":", "\"">> \o esc(o.str) \o <<"\"", "}">>
    ELSE <<"{", "\"", "k", "\"", ":">> \o json_text([o EXCEPT !.nest = @ - 1]) \o <<"}">>

RECURSIVE join(_, _)
join(objs, sep) ==
    IF objs = <<>> THEN <<>>
    ELSE IF Len(objs) = 1 THEN json_text(objs[1])
    ELSE json_text(objs[1]) \o sep \o join(Tail(objs), sep)

\* the characters of the file composed as d says
Text(d) == Layout(d.kind).lead \o join(d.objs, Layout(d.kind).sep) \o Layout(d.kind).trail

\* json.loads (line 77) of a string body, after its opening quote
RECURSIVE parse_string(_, _)
parse_string(t, acc) ==
    IF t = <<>> THEN [ok |-> FALSE, val |-> <<>>, rest |-> <<>>]
    ELSE IF Head(t) = "\"" THEN [ok |-> TRUE, val |-> acc, rest |-> Tail(t)]
    ELSE IF Head(t) = "\\"
         THEN IF Len(t) >= 2 /\ t[2] \in {"\"", "\\"}
              THEN parse_string(SubSeq(t, 3, Len(t)), Append(acc, t[2]))
              ELSE [ok |-> FALSE, val |-> <<>>, rest |-> <<>>]
    ELSE parse_string(Tail(t), Append(acc, Head(t)))

\* json.loads of an object with the key k
RECURSIVE parse_object(_)
parse_object(t) ==
    LET bad == [ok |-> FALSE, val |-> [nest |-> 0, str |-> <<>>], rest |-> <<>>]
    IN  IF Len(t) < 6 \/ SubSeq(t, 1, 5) # <<"{", "\"", "k", "\"", ":">> THEN bad
        ELSE LET v == IF t[6] = "\""
                      THEN LET r == parse_string(SubSeq(t, 7, Len(t)), <<>>)
                           IN  [ok |-> r.ok, val |-> [nest |-> 1, str |-> r.val],
                                rest |-> r.rest]
                      ELSE LET r == parse_object(SubSeq(t, 6, Len(t)))
                           IN  [ok |-> r.ok,
                                val |-> [nest |-> r.val.nest + 1, str |-> r.val.str],
                                rest |-> r.rest]
             IN  IF v.ok /\ v.rest # <<>> /\ Head(v.rest) = "}"
                 THEN [ok |-> TRUE, val |-> v.val, rest |-> Tail(v.rest)]
                 ELSE bad

\* line 77: json.loads(obj_txt) returns the object, or raises JSONDecodeError
json_loads(t) ==
    LET r == parse_object(t)
    IN  [ok |-> r.ok /\ r.rest = <<>>, val |-> r.val]

\* f.read(1)
read(f, pos) == IF pos < Len(f) THEN f[pos + 1] ELSE ""

\* str.isspace() of one character
isspace(ch) == ch = " "

\* the frame after f.read(1) returned ch
consumed(s, ch) == IF ch = "" THEN s ELSE [s EXCEPT !.pos = @ + 1]

\* lines 43-46, 95-97 and 102-105: an object starts
object_start(s) == [s EXCEPT !.depth = 1, !.buf = Append(@, "{"), !.pc = "objects"]

\* lines 57-72: one character of an object
scan_char(s, ch) ==
    LET b == [s EXCEPT !.buf = Append(@, ch)]
    IN  IF s.in_string
        THEN IF s.escape THEN [b EXCEPT !.escape = FALSE]
             ELSE IF ch = "\\\\" THEN [b EXCEPT !.escape = TRUE]
             ELSE IF ch = "\"" THEN [b EXCEPT !.in_string = FALSE]
             ELSE b
        ELSE IF ch = "\"" THEN [b EXCEPT !.in_string = TRUE]
             ELSE IF ch = "{" THEN [b EXCEPT !.depth = @ + 1]
             ELSE IF ch = "}"
                  THEN [b EXCEPT !.depth = @ - 1,
                                 !.pc = IF s.depth - 1 = 0 THEN "yield" ELSE @]
             ELSE b

\* a comma before the closing bracket is let through
after_comma_lenient(s, ch) ==
    IF ch = "{" THEN object_start(s)
    ELSE IF ch = "]" THEN [s EXCEPT !.pc = "returned"]
    ELSE [s EXCEPT !.pc = "raised"]

\* lines 93-97: after a comma and blanks, ch must start an object
after_comma(s, ch) ==
    IF ch = "{" THEN object_start(s) ELSE [s EXCEPT !.pc = "raised"]

\* lines 21-28: the file is opened and blanks are skipped up to '['
SkipToArray ==
    /\ scan.pc = "open"
    /\ LET ch == read(file, scan.pos)
           s == consumed(scan, ch)
       IN  scan' = IF isspace(ch) THEN s
                   ELSE IF ch = "[" THEN [s EXCEPT !.pc = "first"]
                   ELSE [s EXCEPT !.pc = "raised"]
    /\ UNCHANGED <<doc, file, yielded>>
    /\ UNCHANGED <<serverVars, clientVars, status_out, convVars>>

\* lines 35-51: up to the first object; at the end of the file the loop is
\* left, and the read of line 54 raises
FirstObject ==
    /\ scan.pc = "first"
    /\ LET ch == read(file, scan.pos)
           s == consumed(scan, ch)
       IN  scan' = IF ch = "" THEN [s EXCEPT !.pc = "objects"]
                   ELSE IF isspace(ch) \/ ch = "," THEN s
                   ELSE IF ch = "]" THEN [s EXCEPT !.pc = "returned"]
                   ELSE IF ch = "{" THEN object_start(s)
                   ELSE [s EXCEPT !.pc = "raised"]
    /\ UNCHANGED <<doc, file, yielded>>
    /\ UNCHANGED <<serverVars, clientVars, status_out, convVars>>

\* lines 54-72: the next character of the object being read
ScanChar ==
    /\ scan.pc = "objects"
    /\ LET ch == read(file, scan.pos)
       IN  scan' = IF ch = "" THEN [scan EXCEPT !.pc = "raised"]
                   ELSE scan_char(consumed(scan, ch), ch)
    /\ UNCHANGED <<doc, file, yielded>>
    /\ UNCHANGED <<serverVars, clientVars, status_out, convVars>>

\* lines 74-79: the text of the object is parsed and yielded, or the parse
\* error is raised
YieldObject ==
    /\ scan.pc = "yield"
    /\ LET r == json_loads(scan.buf)
       IN  IF r.ok
           THEN /\ yielded' = Append(yielded, r.val)
                /\ scan' = [scan EXCEPT !.buf = <<>>, !.pc = "between"]
           ELSE /\ scan' = [scan EXCEPT !.buf = <<>>, !.pc = "raised"]
                /\ UNCHANGED yielded
    /\ UNCHANGED <<doc, file>>
    /\ UNCHANGED <<serverVars, clientVars, status_out, convVars>>

\* lines 81-106: after an object, up to the comma, the next object or ']'
NextObject ==
    /\ scan.pc = "between"
    /\ LET ch == read(file, scan.pos)
           s == consumed(scan, ch)
       IN  scan' = IF ch = "" THEN [s EXCEPT !.pc = "raised"]
                   ELSE IF isspace(ch) THEN s
                   ELSE IF ch = "," THEN [s EXCEPT !.pc = "comma"]
                   ELSE IF ch = "]" THEN [s EXCEPT !.pc = "returned"]
                   ELSE IF ch = "{" THEN object_start(s)
                   ELSE [s EXCEPT !.pc = "raised"]
    /\ UNCHANGED <<doc, file, yielded>>
    /\ UNCHANGED <<serverVars, clientVars, status_out, convVars>>

\* lines 90-97: after the comma
AfterComma ==
    /\ scan.pc = "comma"
    /\ LET ch == read(file, scan.pos)
           s == consumed(scan, ch)
       IN  scan' = IF isspace(ch) THEN s ELSE after_comma(s, ch)
    /\ UNCHANGED <<doc, file, yielded>>
    /\ UNCHANGED <<serverVars, clientVars, status_out, convVars>>

\* the input is a file cut short: it ends where the generator stands, and
\* what the generator has read is all there is
CutShort ==
    /\ scan.pc \in {"open", "first", "objects", "between", "comma"}
    /\ scan.pos < Len(file)
    /\ file' = SubSeq(file, 1, scan.pos)
    /\ doc' = [doc EXCEPT !.cut = TRUE]
    /\ UNCHANGED <<scan, yielded>>
    /\ UNCHANGED <<serverVars, clientVars, status_out, convVars>>

InitDecode ==
    /\ InitServer
    /\ body = [i \in 1..MaxLines |-> "rec"]
    /\ InitClient
    /\ status_out = NoStatus
    /\ NoConversion
    /\ doc \in Docs
    /\ file = Text(doc)
    /\ scan = [Idle EXCEPT !.pc = "open"]
    /\ yielded = <<>>

NextDecode ==
    \/ SkipToArray
    \/ FirstObject
    \/ ScanChar
    \/ YieldObject
    \/ NextObject
    \/ AfterComma
    \/ CutShort

SpecDecode == InitDecode /\ [][NextDecode]_vars


(***************************************************************************)
(* What the formulas about the decoder speak about.                        *)
(***************************************************************************)
\* the file is a JSON array of objects, whole
WellFormed == doc.kind \in {"array", "spaced"} /\ ~doc.cut

(***************************************************************************)
(* C21. For a well-formed JSON array of objects, whose string values hold  *)
(* braces, brackets, commas, escaped quotes and escaped backslashes, the   *)
(* generator raises no error, what it has yielded is at every moment the   *)
(* first objects of the array, in order, and when it returns it has        *)
(* yielded all of them.                                                    *)
(***************************************************************************)
C21_YieldsTheObjects ==
    WellFormed =>
        /\ scan.pc # "raised"
        /\ IsPrefix(yielded, doc.objs)
        /\ scan.pc = "returned" => yielded = doc.objs


\* the file does not start, after blanks, with '['
NotAnArray == doc.kind = "no_bracket"

\* the file ends inside an object or before the closing ']'
EndsEarly == doc.cut

\* a comma that follows an object is followed, after blanks, by a character
\* other than '{'
CommaAfterObjectThenOther ==
    \/ doc.kind = "bad_after_comma" /\ Len(doc.objs) >= 2
    \/ doc.kind = "trailing_comma" /\ Len(doc.objs) >= 1

\* any comma outside the objects is followed, after blanks, by a character
\* other than '{': also the comma that stands before the first object
CommaThenOther ==
    \/ CommaAfterObjectThenOther
    \/ doc.kind \in {"leading_comma", "trailing_comma"} /\ doc.objs = <<>>

(***************************************************************************)
(* C29, as stated. The generator never returns normally on a file that     *)
(* does not start with '[', that ends early, or in which the first         *)
(* non-blank character after a comma is not '{'.                           *)
(***************************************************************************)
C29_RaisesOnEveryComma ==
    (NotAnArray \/ EndsEarly \/ CommaThenOther) => scan.pc # "returned"

(***************************************************************************)
(* C29, amended. The generator never returns normally on a file that does  *)
(* not start with '[', that ends early, or in which the first non-blank    *)
(* character after a comma that follows an object is not '{' (commas       *)
(* before the first object are skipped: "[,]" is read as an empty array).  *)
(* When it has raised, what it yielded are objects of the file that stand  *)
(* before the defect, and it has read nothing behind the defect.           *)
(***************************************************************************)
C29_MalformedInputRaises ==
    /\ (NotAnArray \/ EndsEarly \/ CommaAfterObjectThenOther) => scan.pc # "returned"
    /\ scan.pc = "raised" =>
          /\ IsPrefix(yielded, doc.objs)
          /\ NotAnArray => yielded = <<>> /\ scan.pos <= Len(Layout(doc.kind).lead) + 1
          /\ doc.kind = "bad_after_comma" /\ ~doc.cut /\ yielded # <<>> =>
                /\ Len(yielded) = 1
                /\ file[scan.pos] = "a"

\* the second object stands behind ", a": the first one was yielded, then
\* the error was raised at the 'a'
C29_Witness ==
    /\ doc.kind = "bad_after_comma"
    /\ ~doc.cut
    /\ Len(doc.objs) = 2
    /\ scan.pc = "raised"
    /\ yielded = <<doc.objs[1]>>
    /\ file[scan.pos] = "a"


(***************************************************************************)
(* C22. For the records of a batch, write_chunk returns the same checksum  *)
(* and the same count with compression on and off: the checksum is that of *)
(* the uncompressed NDJSON bytes and the count is the number of records;   *)
(* the path ends in .gz and the gzip flag is true exactly when compression *)
(* was requested.  Every chunk written carries the checksum of the         *)
(* uncompressed content of its file and the flag of the command line.      *)
(***************************************************************************)
C22_ChecksumOfUncompressed ==
    /\ cpc \in {"open", "writing"} =>
          LET out_path == chunk_path(chunk_seq, FALSE)
              on == write_chunk(batch, out_path, TRUE, chunk_seq)
              off == write_chunk(batch, out_path, FALSE, chunk_seq)
          IN  /\ on.md5 = off.md5
              /\ on.md5 = md5_of_bytes(ndjson(batch))
              /\ on.count = off.count
              /\ on.count = Len(batch)
              /\ on.gzip /\ on.path.gz
              /\ ~off.gzip /\ ~off.path.gz
    /\ \A i \in 1..Len(produced) :
          LET meta == produced[i]
          IN  /\ meta.gzip = cargs.gzip
              /\ meta.path.gz = cargs.gzip
              /\ disk[meta.path].closed =>
                    /\ meta.md5 = md5_of_bytes(RawOf(meta))
                    /\ meta.count = Len(RawOf(meta))
                    /\ meta.gzip => disk[meta.path].data = gzip_bytes(RawOf(meta))

\* a compressed chunk of two records is on disk, its checksum is that of the
\* two NDJSON lines
C22_Witness ==
    /\ cargs.gzip
    /\ produced # <<>>
    /\ produced[1].count = 2
    /\ produced[1].gzip
    /\ produced[1].path.gz
    /\ disk[produced[1].path].closed
    /\ produced[1].md5 = md5_of_bytes(gunzip(disk[produced[1].path].data))
    /\ produced[1].md5 # md5_of_bytes(disk[produced[1].path].data)


(***************************************************************************)
(* The uploader alone, over a manifest of compressed or of uncompressed    *)
(* chunks.                                                                 *)
(***************************************************************************)
\* number of uploader runs whose requests are looked at
MaxHeaderRuns == 1

InitHeaders == UploadStart /\ chunk_gzip \in BOOLEAN

\* a run of either tool, with any command line
StartAnyRun ==
    /\ runs < MaxHeaderRuns
    /\ \/ \E a \in ChunksArgSets :
            \E s \in (IF a.auto_resume THEN 0..MaxChunks ELSE {0}) :
               StartRun("chunks", a, s)
       \/ \E a \in ForceArgSets : StartRun("force", a, 0)
    /\ UNCHANGED <<serverVars, convVars, decVars, status_out>>

NextHeaders ==
    \/ StartAnyRun
    \/ ResolveResume
    \/ ForcePlan
    \/ StartCurl
    \/ CurlAnswered
    \/ RecordProgress
    \/ EndOfLoop
    \/ Kill

SpecHeaders == InitHeaders /\ [][NextHeaders]_vars

(***************************************************************************)
(* C23, as stated. The request of every curl started for a manifest chunk  *)
(* carries the bearer token, the manifest's idempotency key, the chunk's   *)
(* seq as X-Batch-Seq, and Content-Encoding: gzip exactly when the chunk   *)
(* is recorded as compressed.                                              *)
(***************************************************************************)
C23_HeadersOfTheJob ==
    upc = "waiting" =>
        /\ Request.authorization = "Bearer tok"
        /\ Request.idempotency_key = "k1"
        /\ Request.x_batch_seq = Cur
        /\ Request.content_encoding = (IF chunk_gzip THEN {"gzip"} ELSE {})

(***************************************************************************)
(* C23, amended. The request of every curl started for a manifest chunk    *)
(* carries the bearer token, the chunk's seq as X-Batch-Seq, and           *)
(* Content-Encoding: gzip exactly when the chunk is recorded as            *)
(* compressed.  Its Idempotency-Key is the manifest's key, except in a run *)
(* of force_submit_from_n that was given --idem-key: there it is that      *)
(* value.  The key depends on the command line only, so all requests of    *)
(* one run carry the same key.                                             *)
(***************************************************************************)
C23_HeadersOfTheRun ==
    upc = "waiting" =>
        /\ Request.authorization = "Bearer tok"
        /\ tool = "chunks" => Request.idempotency_key = "k1"
        /\ tool = "force" /\ args.idem_key = "" => Request.idempotency_key = "k1"
        /\ tool = "force" /\ args.idem_key # "" => Request.idempotency_key = args.idem_key
        /\ Request.x_batch_seq = Cur
        /\ Request.x_batch_seq = sent[Len(sent)]
        /\ "gzip" \in Request.content_encoding <=> chunk_gzip

\* force_submit_from_n --idem-key k2 has sent compressed chunk 0 and now
\* sends chunk 1 under k2
C23_Witness ==
    /\ upc = "waiting"
    /\ tool = "force"
    /\ args.idem_key = "k2"
    /\ chunk_gzip
    /\ sent = <<0, 1>>
    /\ Request.idempotency_key = "k2"
    /\ Request.x_batch_seq = 1
    /\ Request.content_encoding = {"gzip"}


(***************************************************************************)
(* The end of one upload attempt, as a step of the uploader: curl's output *)
(* has been read to its end and the child waited for.  answer' is what it  *)
(* ended with.                                                             *)
(***************************************************************************)
CurlExited == upc = "waiting" /\ upc' \notin {"waiting", "dead"}

\* a 2xx status was received and the transfer ended with exit code 0
Answered2xx(o) == o.status \in 200..299 /\ o.rc = 0

\* the attempt is taken as a success: json_to_ndjson_chunks goes on to write
\* the progress line, force_submit_from_n counts the chunk as sent
TakenAsSuccess ==
    IF tool = "chunks"
    THEN upc' = "record"
    ELSE upc' = "planned" /\ n_sent' = n_sent + 1

(***************************************************************************)
(* C24. Either tool takes the upload of a chunk as successful if and only  *)
(* if curl reported a 2xx status and ended with exit code 0: any other     *)
(* status (302, 500), no status at all, and a non-zero exit of the         *)
(* transfer (also after a 2xx status line) make the attempt a failure.  A  *)
(* failed attempt writes nothing to the progress log, and a line is added  *)
(* to the log only for the chunk whose attempt has just succeeded.         *)
(***************************************************************************)
C24_SuccessIff2xx ==
    [][/\ CurlExited =>
             /\ TakenAsSuccess <=> Answered2xx(answer')
             /\ ~Answered2xx(answer') => progress' = progress /\ upc' # "record"
       /\ progress' # progress =>
             /\ upc = "record"
             /\ Answered2xx(answer)
             /\ progress' = Append(progress, Cur)
      ]_vars

\* chunk 0 is logged, and the last attempt got a 2xx status line from a
\* transfer that then broke: the run was aborted without a line for it
C24_Witness ==
    /\ upc = "aborted"
    /\ answer = [status |-> 200, rc |-> 56]
    /\ progress = <<0>>

(***************************************************************************)
(* C25. In the default mode (json_to_ndjson_chunks, and force_submit_from_n*)
(* without --continue-on-error) a failed upload ends the run with a        *)
(* non-zero exit: no curl is left, nothing more is sent until a new run is *)
(* started, and the progress log is what it was when the attempt began.    *)
(***************************************************************************)
C25_AbortOnFailure ==
    [][/\ ( /\ CurlExited
            /\ ~Answered2xx(answer')
            /\ (tool = "chunks" \/ ~args.continue_on_error) ) =>
                /\ upc' = "aborted"
                /\ curl' = {}
                /\ progress' = progress
       /\ upc = "waiting" => progress' = progress
       /\ upc = "aborted" =>
                /\ sent = <<>>
                /\ curl = {}
                /\ upc' = "aborted" \/ (runs' = runs + 1 /\ upc' = "start" /\ sent' = <<>>)
      ]_vars

\* the first run logged chunk 0 and was aborted by a 500 for chunk 1
C25_Witness ==
    /\ upc = "aborted"
    /\ runs = 1
    /\ answer = [status |-> 500, rc |-> 22]
    /\ progress = <<0>>

(***************************************************************************)
(* C26. With --continue-on-error a failed chunk does not stop              *)
(* force_submit_from_n: the loop goes on to the next chunk of the plan, so *)
(* that at the end of the loop every planned chunk has been attempted      *)
(* exactly once, in increasing seq order, and the count printed at line 74 *)
(* is the number of chunks whose upload succeeded.                         *)
(***************************************************************************)
C26_ContinueOnError ==
    [][tool = "force" /\ args.continue_on_error =>
          /\ CurlExited =>
                /\ upc' = "planned"
                /\ idx' = idx + 1
                /\ sent' = sent
                /\ n_sent' = n_sent + (IF Answered2xx(answer') THEN 1 ELSE 0)
          /\ n_sent = Cardinality(oks)
          /\ oks \subseteq {sent[i] : i \in 1..Len(sent)}
          /\ upc = "planned" /\ idx > Len(upload_chunks) =>
                /\ sent = upload_chunks
                /\ \A i, j \in 1..Len(sent) : i < j => sent[i] < sent[j]
      ]_vars

\* the loop is over: chunk 0 failed, chunk 1 was still sent and succeeded,
\* and the count is 1
C26_Witness ==
    /\ tool = "force"
    /\ args.continue_on_error
    /\ upc = "planned"
    /\ idx > Len(upload_chunks)
    /\ sent = <<0, 1>>
    /\ oks = {1}
    /\ n_sent = 1

\* the manifest chunks with seq >= --start-at, the lowest --limit of them
Wanted(a) ==
    LET from == {c \in ManifestSeqs : c >= a.start_at}
    IN  IF a.limit.some
        THEN {c \in from : Cardinality({d \in from : d < c}) < a.limit.val}
        ELSE from

(***************************************************************************)
(* C27. A run of force_submit_from_n with --start-at n plans exactly the   *)
(* manifest chunks with seq >= n (the lowest --limit of them when a limit  *)
(* is given), in increasing order, whatever progress.jsonl holds, and no   *)
(* step of the run, its start included, changes progress.jsonl or the      *)
(* manifest.                                                               *)
(***************************************************************************)
C27_ForceIgnoresProgress ==
    [][/\ tool = "force" /\ upc \in {"planned", "waiting"} =>
             /\ {upload_chunks[i] : i \in 1..Len(upload_chunks)} = Wanted(args)
             /\ \A i, j \in 1..Len(upload_chunks) :
                   i < j => upload_chunks[i] < upload_chunks[j]
       /\ (tool = "force" \/ tool' = "force") =>
             /\ progress' = progress
             /\ manifest' = manifest
      ]_vars

\* every chunk is in the progress log, and a run with --start-at 0
\* --limit 1 has sent chunk 0 again and nothing else
C27_Witness ==
    /\ tool = "force"
    /\ progress = <<0, 1>>
    /\ args.start_at = 0
    /\ args.limit = Some(1)
    /\ upc = "planned"
    /\ idx = 2
    /\ sent = <<0>>

(***************************************************************************)
(* C28. progress.jsonl is append-only across all runs of both tools: every *)
(* step leaves its lines in place, a step adds at most one line, and a     *)
(* line is added only by the step that records the chunk whose upload has  *)
(* just succeeded, once per success.                                       *)
(***************************************************************************)
C28_ProgressAppendOnly ==
    [][/\ IsPrefix(progress, progress')
       /\ Len(progress') <= Len(progress) + 1
       /\ progress' # progress =>
             /\ upc = "record"
             /\ upc' # "record"
             /\ Cur \in oks
             /\ progress' = Append(progress, Cur)
       /\ upc' = "record" => upc = "waiting" /\ Answered2xx(answer')
      ]_vars

\* a third run starts on a log of two lines and leaves them there
C28_Witness ==
    /\ tool = "chunks"
    /\ upc = "start"
    /\ runs = 3
    /\ progress = <<0, 1>>


(***************************************************************************)
(* C30. When the decoder raises while a batch is being accumulated, the    *)
(* step writes no file: no chunk file and no manifest entry exist for the  *)
(* records of the partial batch.  After the error manifest.json is absent  *)
(* when no chunk was completed, and otherwise lists exactly the chunks     *)
(* completed before the error, each of chunk_size records and fully        *)
(* written, holding the records decoded before the partial batch.          *)
(***************************************************************************)
C30_NoChunkForPartialBatch ==
    [][cpc = "loop" /\ cpc' \in Raised =>
          LET done == Len(produced) * cargs.chunk_size
          IN  /\ disk' = disk
              /\ batch = SubSeq(source, done + 1, iterator.val)
              /\ Len(batch) < cargs.chunk_size
              /\ IF produced = <<>>
                 THEN ~disk'[manifest_path].exists
                 ELSE /\ disk'[manifest_path].exists
                      /\ disk'[manifest_path].closed
                      /\ disk'[manifest_path].data.chunks = produced
                      /\ ManifestRecords = SubSeq(source, 1, done)
              /\ \A i \in 1..Len(produced) :
                    /\ ChunkOnDisk(produced[i])
                    /\ produced[i].count = cargs.chunk_size
      ]_vars

\* the decoder raised on the third record of a run with chunk size 2: one
\* chunk of two records is listed, and there is no file for the next seq
C30_Witness ==
    /\ cpc = "raised_partial"
    /\ cargs.chunk_size = 2
    /\ Len(produced) = 1
    /\ ManifestFile.exists
    /\ Len(ManifestFile.data.chunks) = 1
    /\ ManifestFile.data.chunks[1].count = 2
    /\ \A p \in ChunkPaths : p.seq # cargs.start_seq => ~disk[p].exists


(***************************************************************************)
(* The converter run again and again on one input and one output           *)
(* directory: every run is given the same source file.                     *)
(***************************************************************************)
TheSource == [i \in 1..MaxRecords |-> IF i % 2 = 1 THEN "a" ELSE "b"]

StartSameSource == ConvStart(TheSource)

NextRerun ==
    \/ StartSameSource
    \/ Decode
    \/ DecodeError
    \/ Exhausted
    \/ OpenChunk
    \/ WriteChunk
    \/ DieInWrite
    \/ OpenTmp
    \/ DumpTmp
    \/ Replace
    \/ SetTotals
    \/ ConvReturn
    \/ ConvKill

SpecRerun == InitConvert /\ [][NextRerun]_vars

(***************************************************************************)
(* C31. When a conversion was interrupted (killed, or ended by a parse     *)
(* error) and the converter is run again on the same input and output      *)
(* directory, the later run ends with a manifest whose chunks, read in seq *)
(* order, hold the records of the source, each exactly once and in order.  *)
(***************************************************************************)
C31_RerunCoversSource ==
    cpc = "chunked" /\ cruns >= 2 => ManifestRecords = source


(***************************************************************************)
(* C32. With no --resume-from, with --no-resume-local or an empty progress *)
(* log, and without --auto-resume, json_to_ndjson_chunks plans every chunk *)
(* of the manifest (its start is sequence 0), whatever the status endpoint *)
(* would report, and it does not ask the status endpoint.                  *)
(***************************************************************************)
C32_Case ==
    /\ upc = "planned"
    /\ ~args.resume_from.some
    /\ args.no_resume_local \/ progress = <<>>
    /\ ~args.auto_resume

C32_DefaultSendsAll ==
    C32_Case =>
        /\ upload_chunks = manifest
        /\ OrZero(resume_from) = 0
        /\ ~status_out.asked

\* --no-resume-local on a log that names chunk 1, and a server that would
\* report 2: both chunks are planned
C32_Witness ==
    /\ C32_Case
    /\ args.no_resume_local
    /\ progress = <<1>>
    /\ srv_next = 2
    /\ manifest = <<0, 1>>
    /\ upload_chunks = <<0, 1>>


(***************************************************************************)
(* submit_batch (login_server.py lines 824-873) over the same ledger and   *)
(* record store, with store_metrics_bulk of metrics_store.py.  The body is *)
(* a JSON array of objects; the attempts for the tuple come one after the  *)
(* other, each after the previous one was answered or its process died.    *)
(***************************************************************************)
\* the InsertOne operations store_metrics_bulk builds for the body of r
BatchOps(r) == [i \in 1..Len(body) |-> Doc(hdr[r], i)]

\* the answer of lines 856-857
batch_duplicate(k) ==
    [status |-> 200, ok |-> TRUE, inserted |-> 0, duplicate |-> TRUE,
     next_expected_seq |-> k.seq + 1]

\* lines 829-858: the headers and the body are accepted and the in_progress
\* row is inserted; on E11000 the handler returns the duplicate answer
\* without looking at the row
BatchClaim(r) ==
    /\ pc[r] = "idle"
    /\ \A q \in Requests : q < r => pc[q] \in Terminal
    /\ \E k \in Keys :
          /\ hdr' = [hdr EXCEPT ![r] = k]
          /\ late' = [late EXCEPT ![r] = (k \in acked)]
          /\ IF DuplicateKey(ledger, k)
             THEN /\ pc' = [pc EXCEPT ![r] = "dup"]
                  /\ resp' = [resp EXCEPT ![r] = batch_duplicate(k)]
                  /\ UNCHANGED ledger
             ELSE /\ ledger' = insert_one(ledger, r, k)
                  /\ pc' = [pc EXCEPT ![r] = "ingest"]
                  /\ UNCHANGED resp
    /\ UNCHANGED <<store, body, line_no, ops, inserted, acked>>
    /\ UNCHANGED <<clientVars, status_out, convVars, decVars>>

\* line 861 and metrics_store.py lines 61-68: one bulk_write of the whole body
BatchInsert(r) ==
    /\ pc[r] = "ingest"
    /\ store' = bulk_write(store, BatchOps(r))
    /\ inserted' = [inserted EXCEPT ![r] = Len(BatchOps(r))]
    /\ pc' = [pc EXCEPT ![r] = "finalise"]
    /\ UNCHANGED <<ledger, body, hdr, line_no, ops, resp, acked, late>>
    /\ UNCHANGED <<clientVars, status_out, convVars, decVars>>

\* metrics_store.py lines 69-70: bulk_write raises PyMongoError, after some of
\* the (unordered) operations may have been applied; r["ok"] is False
BatchInsertError(r) ==
    /\ pc[r] = "ingest"
    /\ \E n \in 0..(Len(body) - 1) :
          store' = bulk_write(store, SubSeq(BatchOps(r), 1, n))
    /\ pc' = [pc EXCEPT ![r] = "rollback"]
    /\ resp' = [resp EXCEPT ![r] = [NoResp EXCEPT !.status = 500]]
    /\ UNCHANGED <<ledger, body, hdr, line_no, ops, inserted, acked, late>>
    /\ UNCHANGED <<clientVars, status_out, convVars, decVars>>

\* lines 864-869: the row is set to done and the success answer is sent
BatchFinalise(r) ==
    /\ pc[r] = "finalise"
    /\ ledger' = update_one(ledger, hdr[r], inserted[r])
    /\ acked' = IF Matching(ledger, hdr[r]) # {} THEN acked \cup {hdr[r]} ELSE acked
    /\ pc' = [pc EXCEPT ![r] = "ok"]
    /\ resp' = [resp EXCEPT ![r] =
           [status |-> 200, ok |-> TRUE, inserted |-> inserted[r],
            duplicate |-> FALSE, next_expected_seq |-> hdr[r].seq + 1]]
    /\ Return(r)
    /\ UNCHANGED <<store, body, hdr, late>>
    /\ UNCHANGED <<clientVars, status_out, convVars, decVars>>

\* lines 870-873: the row is deleted and HTTPException(500) raised
BatchRollback(r) ==
    /\ pc[r] = "rollback"
    /\ ledger' = delete_one(ledger, hdr[r])
    /\ pc' = [pc EXCEPT ![r] = "failed"]
    /\ Return(r)
    /\ UNCHANGED <<store, body, hdr, resp, acked, late>>
    /\ UNCHANGED <<clientVars, status_out, convVars, decVars>>

\* the server process dies while submit_batch is between two storage calls
BatchCrash(r) ==
    /\ pc[r] \in {"ingest", "finalise", "rollback"}
    /\ Crash(r)

InitBatch ==
    /\ InitServer
    /\ body \in {[i \in 1..n |-> "rec"] : n \in 1..MaxLines}
    /\ InitClient
    /\ NoConversion
    /\ NoScan
    /\ status_out = NoStatus

NextBatch ==
    \E r \in Requests :
        \/ BatchClaim(r)
        \/ BatchInsert(r)
        \/ BatchInsertError(r)
        \/ BatchFinalise(r)
        \/ BatchRollback(r)
        \/ BatchCrash(r)

SpecBatch == InitBatch /\ [][NextBatch]_vars

(***************************************************************************)
(* C33. In submit_batch a request for a tuple whose row was left           *)
(* in_progress by an attempt that died is a resumable retry: it is not     *)
(* answered as a duplicate.  A duplicate answer is only given for a tuple  *)
(* that an earlier request had completed with its row done, and a request  *)
(* that meets a row which is not done goes on to the bulk insert.          *)
(***************************************************************************)
C33_InProgressIsRetried ==
    \A r \in Requests :
        pc[r] = "dup" => late[r] /\ RowDone(hdr[r])


(***************************************************************************)
(* submit_ndjson and ingest_status with requests for two tuples: two       *)
(* producers using the same Idempotency-Key and X-Batch-Seq.  Requests     *)
(* overlap freely.                                                         *)
(***************************************************************************)
ManyKeys ==
    {[publisher_email |-> "p1", idempotency_key |-> "k1", seq |-> 5],
     [publisher_email |-> "p2", idempotency_key |-> "k1", seq |-> 5]}

\* how many requests reach the server in the specifications of the requests
\* for two tuples and of the header sets
MaxTupleReq == 2

ClaimAny(r) ==
    /\ r <= MaxTupleReq
    /\ \E k \in ManyKeys : ClaimKey(r, k)
    /\ UNCHANGED <<clientVars, status_out, convVars, decVars>>

\* GET /ingest/status?idempotency_key=k1 by producer p1
AskStatusP1 ==
    /\ status_out' = ingest_status(ledger, "p1", "k1")
    /\ status_out' # status_out
    /\ UNCHANGED <<serverVars, clientVars, convVars, decVars>>

InitTuples ==
    /\ InitServer
    /\ body = [i \in 1..MaxLines |-> "rec"]
    /\ InitClient
    /\ NoConversion
    /\ NoScan
    /\ status_out = NoStatus

NextTuples ==
    \/ \E r \in Requests : ClaimAny(r) \/ Step(r)
    \/ AskStatusP1

SpecTuples == InitTuples /\ [][NextTuples]_vars

\* the rows of the ledger that carry the tuple k, and the status they show
RowsWith(sess, k) ==
    {row \in sess : /\ row.publisher_email = k.publisher_email
                    /\ row.idempotency_key = k.idempotency_key
                    /\ row.seq = k.seq}

StatusWith(sess, k) ==
    IF RowsWith(sess, k) = {} THEN "absent"
    ELSE (CHOOSE row \in RowsWith(sess, k) : TRUE).status

(***************************************************************************)
(* C34. A step of a request for the tuple (p, k, s) leaves the rows of     *)
(* every other tuple as they are, and what the request does depends on the *)
(* row of its own tuple only: it inserts a fresh row exactly when there is *)
(* none (whatever rows other producers hold for the same key and seq), is  *)
(* answered as a duplicate exactly when the row it reads back is done, and *)
(* redoes the ingest otherwise.  An answer of ingest_status to producer p1 *)
(* lists seqs of rows of p1 only.                                          *)
(***************************************************************************)
C34_TuplesAreIndependent ==
    [][/\ \A r \in Requests :
             pc'[r] # pc[r] =>
                 /\ \A k \in ManyKeys \ {hdr'[r]} :
                       RowsWith(ledger', k) = RowsWith(ledger, k)
                 /\ pc[r] = "idle" =>
                       /\ pc'[r] = "ingest" <=> StatusWith(ledger, hdr'[r]) = "absent"
                       /\ pc'[r] = "readback" <=> StatusWith(ledger, hdr'[r]) # "absent"
                       /\ pc'[r] = "ingest" =>
                             \E row \in RowsWith(ledger', hdr'[r]) : row.id = r
                 /\ pc[r] = "readback" /\ pc'[r] # "crashed" =>
                       /\ pc'[r] = "dup" <=> StatusWith(ledger, hdr[r]) = "done"
                       /\ pc'[r] = "ingest" <=> StatusWith(ledger, hdr[r]) # "done"
       /\ status_out' # status_out =>
             LET mine == {row \in ledger : /\ row.publisher_email = "p1"
                                           /\ row.idempotency_key = "k1"}
             IN  /\ ledger' = ledger
                 /\ {status_out'.processed[i] : i \in 1..Len(status_out'.processed)}
                       = {row.seq : row \in {x \in mine : x.status = "done"}}
                 /\ {status_out'.in_progress[i] : i \in 1..Len(status_out'.in_progress)}
                       = {row.seq : row \in {x \in mine : x.status = "in_progress"}}
      ]_vars

\* the row of (p1, k1, 5) is done, a request of p2 with the same key and seq
\* has claimed its own row, and the status answer to p1 lists seq 5 alone
C34_Witness ==
    /\ StatusWith(ledger, [publisher_email |-> "p1", idempotency_key |-> "k1", seq |-> 5]) = "done"
    /\ \E r \in Requests :
          /\ hdr[r].publisher_email = "p2"
          /\ pc[r] = "ingest"
          /\ \E row \in ledger : row.id = r /\ row.publisher_email = "p2"
    /\ status_out.asked
    /\ status_out.processed = <<5>>
    /\ status_out.in_progress = <<>>


(***************************************************************************)
(* C35. While a request is ingesting, its buffer of pending ops stays      *)
(* below BULK_MAX_OPS between two lines (it is flushed in the step that    *)
(* brings it to that size) and holds the records read since the last flush;*)
(* each flush writes to the store exactly the records read since the       *)
(* previous flush, at most BULK_MAX_OPS of them, so that every record line *)
(* is written by one flush and no other; and the inserted count of a       *)
(* success response is the number of non-blank lines of the body.          *)
(***************************************************************************)
\* the numbers of the record lines among the first n lines, in order
RECURSIVE RecLines(_)
RecLines(n) ==
    IF n = 0 THEN <<>>
    ELSE IF body[n] = "rec" THEN Append(RecLines(n - 1), n) ELSE RecLines(n - 1)

NonBlank == {i \in 1..Len(body) : body[i] # "blank"}

C35_BufferAccounting ==
    [][\A r \in Requests :
          LET seen == RecLines(line_no[r])
              seen2 == RecLines(line_no'[r])
          IN  /\ pc[r] = "ingest" =>
                    /\ Len(ops[r]) < BULK_MAX_OPS
                    /\ inserted[r] + Len(ops[r]) = Len(seen)
                    /\ ops[r] = [j \in 1..Len(ops[r]) |->
                                    Doc(hdr[r], seen[inserted[r] + j])]
              /\ ( /\ pc[r] = "ingest"
                   /\ pc'[r] \in {"ingest", "finalise"}
                   /\ <<pc[r], line_no[r]>> # <<pc'[r], line_no'[r]>> ) =>
                    /\ inserted'[r] - inserted[r] <= BULK_MAX_OPS
                    /\ store' = store (+) SetToBag(
                          {Doc(hdr[r], seen2[j]) :
                               j \in (inserted[r] + 1)..inserted'[r]})
                    /\ pc'[r] = "finalise" => inserted'[r] = Len(RecLines(Len(body)))
              /\ pc'[r] = "ok" =>
                    /\ resp'[r].inserted = Cardinality(NonBlank)
                    /\ resp'[r].status = 200
      ]_vars

\* a request has succeeded on a body of MaxLines record lines: one flush of
\* a full buffer in the middle and one of the remainder at the end
C35_Witness ==
    \E r \in Requests :
        /\ pc[r] = "ok"
        /\ \A i \in 1..Len(body) : body[i] = "rec"
        /\ Len(body) > BULK_MAX_OPS
        /\ Len(body) % BULK_MAX_OPS # 0
        /\ resp[r].inserted = Len(body)


(***************************************************************************)
(* submit_ndjson from the first line of the handler: the request headers   *)
(* are looked at before anything is stored (lines 659-678).                *)
(***************************************************************************)
\* Content-Type values, split at ";" (absent: <<>>)
ContentTypes ==
    {<<"application/x-ndjson">>, <<"application/x-ndjson", "charset=utf-8">>,
     <<"application/json">>, <<>>}

\* a header that is absent is <<>>, one that is present is <<its text>>
HeaderSets ==
    [content_type : ContentTypes,
     idempotency_key : {<<>>, <<"k1">>},
     x_batch_seq : {<<>>, <<"5">>, <<"x">>}]

\* the texts int() accepts, with their values (any other text: ValueError)
IntTexts == ("5" :> 5) @@ ("6" :> 6)

\* a handler that lets every Content-Type through
content_type_ok_any(v) == TRUE

\* lines 660-661: (headers.get("Content-Type") or "").split(";")[0] ...
\* compared with "application/x-ndjson"
content_type_ok(v) == (IF v = <<>> THEN "" ELSE v[1]) = "application/x-ndjson"

\* line 662 and line 677: HTTPException(400) before anything is stored
Reject(r) ==
    /\ pc[r] = "idle"
    /\ \A q \in Requests : q < r => pc[q] # "idle"
    /\ pc' = [pc EXCEPT ![r] = "rejected"]
    /\ resp' = [resp EXCEPT ![r] = [NoResp EXCEPT !.status = 400]]
    /\ UNCHANGED <<ledger, store, body, hdr, line_no, ops, inserted, acked, late>>

\* line 673 false: no session, the handler goes straight to the ingest
Sessionless(r) ==
    /\ pc[r] = "idle"
    /\ \A q \in Requests : q < r => pc[q] # "idle"
    /\ pc' = [pc EXCEPT ![r] = "ingest"]
    /\ hdr' = [hdr EXCEPT ![r] = NoTuple]
    /\ UNCHANGED <<ledger, store, body, line_no, ops, inserted, resp, acked, late>>

\* lines 659-703 for a request of producer p1 with the headers h
Receive(r, h) ==
    /\ r <= MaxTupleReq
    /\ IF ~content_type_ok(h.content_type)
       THEN Reject(r)
       ELSE IF h.idempotency_key # <<>> /\ h.x_batch_seq # <<>>
            THEN IF h.x_batch_seq[1] \notin DOMAIN IntTexts
                 THEN Reject(r)
                 ELSE ClaimKey(r, [publisher_email |-> "p1",
                                   idempotency_key |-> h.idempotency_key[1],
                                   seq |-> IntTexts[h.x_batch_seq[1]]])
            ELSE Sessionless(r)
    /\ UNCHANGED <<clientVars, status_out, convVars, decVars>>

NextWire == \E r \in Requests : (\E h \in HeaderSets : Receive(r, h)) \/ Step(r)

SpecWire == InitTuples /\ [][NextWire]_vars

(***************************************************************************)
(* C36. A request whose Content-Type is not application/x-ndjson, or that  *)
(* carries an Idempotency-Key together with an X-Batch-Seq that is not an  *)
(* integer, is rejected: it is answered with 400 and the step leaves the   *)
(* ledger and the store as they were; every rejection for headers does so. *)
(* An ingest that ends on a failing bulk_write is answered with 500.       *)
(***************************************************************************)
C36_HeaderRejections ==
    [][\A r \in Requests :
          /\ \A h \in HeaderSets :
                ( /\ Receive(r, h)
                  /\ \/ h.content_type = <<>>
                     \/ h.content_type # <<>> /\ h.content_type[1] # "application/x-ndjson"
                     \/ /\ h.idempotency_key # <<>>
                        /\ h.x_batch_seq = <<"x">> )
                => pc'[r] = "rejected"
          /\ pc[r] = "idle" /\ pc'[r] = "rejected" =>
                /\ resp'[r].status \in 400..499
                /\ ledger' = ledger
                /\ store' = store
          /\ pc[r] = "rejected" => pc'[r] = "rejected" /\ resp'[r] = resp[r]
          /\ pc[r] = "ingest" /\ pc'[r] = "rollback" =>
                resp'[r].status \in 500..599
          /\ pc[r] = "rollback" /\ pc'[r] = "failed" => resp'[r] = resp[r]
      ]_vars

\* one request has been rejected for its headers with nothing stored, and
\* another has failed on a storage error and been answered 500
C36_Witness ==
    \E r, q \in Requests :
        /\ pc[r] = "rejected" /\ resp[r].status = 400
        /\ pc[q] = "failed" /\ resp[q].status = 500
        /\ ledger = {}

(***************************************************************************)
(* C37. A request that lacks Idempotency-Key or X-Batch-Seq never touches  *)
(* the ledger: no step of it changes the ledger, it never reads a row back *)
(* and is never answered as a duplicate.  Each such request that succeeds  *)
(* has inserted its records again (the store holds at least one copy of    *)
(* every record per such success) and its response carries no              *)
(* next_expected_seq.                                                      *)
(***************************************************************************)
IsSessionless(r) == pc[r] # "idle" /\ hdr[r] = NoTuple

C37_NoHeadersNoDedup ==
    [][/\ \A r \in Requests :
             /\ \A h \in HeaderSets :
                   ( /\ Receive(r, h)
                     /\ h.content_type # <<>> /\ h.content_type[1] = "application/x-ndjson"
                     /\ h.idempotency_key = <<>> \/ h.x_batch_seq = <<>> )
                   => /\ hdr'[r] = NoTuple
                      /\ pc'[r] = "ingest"
                      /\ ledger' = ledger
             /\ IsSessionless(r) =>
                   /\ pc'[r] # pc[r] \/ line_no'[r] # line_no[r] => ledger' = ledger
                   /\ pc'[r] \notin {"readback", "dup", "rejected"}
                   /\ hdr'[r] = NoTuple
                   /\ pc'[r] = "ok" /\ pc[r] # "ok" =>
                         /\ resp'[r].status = 200
                         /\ ~resp'[r].duplicate
                         /\ resp'[r].inserted = Len(body)
                         /\ resp'[r].next_expected_seq = NoResp.next_expected_seq
       /\ LET succeeded == {q \in Requests : pc'[q] = "ok" /\ hdr'[q] = NoTuple}
          IN  \A i \in 1..Len(body) :
                 CopiesIn(Doc(NoTuple, i), store') >= Cardinality(succeeded)
      ]_vars

\* two requests without idempotency headers have succeeded one after the
\* other: every record is in the store twice and the ledger is empty
C37_Witness ==
    /\ \A r \in 1..2 : IsSessionless(r) /\ pc[r] = "ok" /\ resp[r].inserted = Len(body)
    /\ \A i \in 1..Len(body) : CopiesIn(Doc(NoTuple, i), store) = 2
    /\ ledger = {}


(***************************************************************************)
(* json_to_ndjson_chunks run again and again on one output directory, each *)
(* run with its own --idem-key (or none), and the upload requests of the   *)
(* runs as they reach the server.                                          *)
(***************************************************************************)
\* --idem-key of a run ("": not given)
IdemKeys == {"", "k2", "k3"}

\* a run of the tool on the source, with --idem-key key
StartWithKey(key) ==
    LET a == [cargs EXCEPT !.idem_key = key]
    IN  /\ ConvBegin(TheSource, a)
        /\ cargs' = a

\* lines 328-344: the chunking phase is over and the request for a chunk of
\* the manifest is sent; it reaches submit_ndjson (lines 670-688)
KeyUpload(r) ==
    /\ cpc = "chunked"
    /\ \E i \in 1..Len(mem.chunks) :
          ClaimKey(r, [publisher_email |-> "p1",
                       idempotency_key |-> manifest_key(mem, cargs),
                       seq |-> mem.chunks[i].seq])
    /\ UNCHANGED <<clientVars, status_out, convVars, decVars>>

InitKey ==
    /\ InitConvert
    /\ cargs = [chunk_size |-> 1, gzip |-> FALSE, start_seq |-> 0, idem_key |-> ""]

NextKey ==
    \/ \E key \in IdemKeys : StartWithKey(key)
    \/ Decode
    \/ DecodeError
    \/ Exhausted
    \/ OpenChunk
    \/ WriteChunk
    \/ DieInWrite
    \/ OpenTmp
    \/ DumpTmp
    \/ Replace
    \/ SetTotals
    \/ ConvReturn
    \/ ConvKill
    \/ \E r \in Requests : KeyUpload(r)

SpecKey == InitKey /\ [][NextKey]_vars

(***************************************************************************)
(* C38. Once manifest.json exists it keeps the idempotency key it was      *)
(* created with, whatever the later runs do; a run that finds the manifest *)
(* takes the manifest's key as its idem, whatever --idem-key it was given; *)
(* and every upload request carries the key of the manifest on disk, so    *)
(* that all requests of the job carry one Idempotency-Key.                 *)
(***************************************************************************)
C38_OneKeyPerJob ==
    [][/\ ManifestFile.exists =>
             /\ ManifestFile'.exists
             /\ ManifestFile'.data.idempotency_key = ManifestFile.data.idempotency_key
       /\ ManifestFile'.exists => ManifestFile'.data.idempotency_key # ""
       /\ cpc' = "chunked" /\ existed' =>
             /\ mem'.idempotency_key = ManifestFile'.data.idempotency_key
             /\ idem_reused(mem', cargs', cruns') = ManifestFile'.data.idempotency_key
       /\ \A r \in Requests :
             pc[r] = "idle" /\ pc'[r] # "idle" =>
                 /\ ManifestFile.exists
                 /\ hdr'[r].idempotency_key = ManifestFile.data.idempotency_key
       /\ \A r, q \in Requests :
             pc'[r] # "idle" /\ pc'[q] # "idle" =>
                 hdr'[r].idempotency_key = hdr'[q].idempotency_key
      ]_vars

\* the first run, given --idem-key k2, was stopped after it had saved the
\* manifest and before it could upload; the second run, given --idem-key k3,
\* has found the manifest and its request has reached the server under k2
C38_Witness ==
    /\ cruns = 2
    /\ cpc = "chunked"
    /\ existed
    /\ cargs.idem_key = "k3"
    /\ ManifestFile.data.idempotency_key = "k2"
    /\ ManifestFile.data.total_records = None
    /\ \E r \in Requests : pc[r] # "idle" /\ hdr[r].idempotency_key = "k2"


(***************************************************************************)
(* force_submit_from_n, under the manifest's key, on chunks whose ledger   *)
(* rows are done.                                                          *)
(***************************************************************************)
\* the tuples of the chunks the running tool has planned to send
PlanKeys == {ChunkKey(upload_chunks[i]) : i \in 1..Len(upload_chunks)}

\* force_submit_from_n is in its loop, the row of every chunk of its plan is
\* done, and no handler is ingesting for one of these tuples
ForceSettled ==
    /\ tool = "force"
    /\ upc \in {"planned", "waiting"}
    /\ \A k \in PlanKeys : RowDone(k)
    /\ \A r \in Requests :
          pc[r] # "idle" /\ hdr[r] \in PlanKeys => pc[r] \in Terminal \cup {"readback"}

\* force_submit_from_n --start-at n for the last chunk of the manifest, with
\* or without --continue-on-error, under the manifest's key and without
\* --limit
ResubmitArgs ==
    {f \in OwnKeyForceArgs : f.limit = None /\ f.start_at = MaxChunks - 1}

StartResubmit ==
    /\ runs < MaxRuns
    /\ \E a \in ResubmitArgs : StartRun("force", a, 0)
    /\ UNCHANGED <<serverVars, convVars, decVars, status_out>>

NextResubmit ==
    \/ StartResubmit
    \/ ForcePlan
    \/ StartCurl
    \/ \E r \in Requests : Accept(r)
    \/ \E r \in Requests : Step(r)
    \/ Curl2xx
    \/ CurlFails
    \/ EndOfLoop
    \/ Kill

\* force_submit_from_n run again and again against the server
SpecResubmit == InitUpload /\ [][NextResubmit]_vars

(***************************************************************************)
(* The case of C39 in which no other handler is at work on the chunks:     *)
(* while force_submit_from_n, with the manifest's own key, resubmits       *)
(* chunks whose ledger rows are all done, no step changes the row or the   *)
(* stored records of any of these chunks, and the rows stay done; every    *)
(* request for one of them that arrives is sent to the read-back and ends  *)
(* as a duplicate (or with the death of its handler), the duplicate answer *)
(* being 200 with duplicate true, inserted 0 and next_expected_seq; and    *)
(* the count the tool reports is the number of chunks answered 2xx: all    *)
(* the chunks submitted when no answer was lost.                           *)
(***************************************************************************)
ForceResubmitWhenSettled ==
    [][ForceSettled =>
          /\ \A k \in PlanKeys :
                /\ Matching(ledger', k) = Matching(ledger, k)
                /\ \A i \in 1..Len(body) :
                      CopiesIn(Doc(k, i), store') = CopiesIn(Doc(k, i), store)
          /\ tool' = "force" /\ upc' \in {"planned", "waiting"} => ForceSettled'
          /\ \A r \in Requests :
                hdr'[r] \in PlanKeys /\ pc'[r] # pc[r] =>
                    /\ pc'[r] \in {"readback", "dup", "crashed"}
                    /\ pc'[r] = "dup" => resp'[r] = DupResponse(hdr'[r])
          /\ answer' # answer /\ is2xx(answer'.status) =>
                /\ conn # 0
                /\ pc[conn] = "dup" => resp[conn] = DupResponse(ChunkKey(Cur))
          /\ n_sent = Cardinality(oks)
          /\ oks \subseteq {sent[i] : i \in 1..Len(sent)}
          /\ upc = "planned" =>
                (n_sent = Len(sent) <=> oks = {sent[i] : i \in 1..Len(sent)})
      ]_vars

\* (reached) the chunks were delivered by an earlier run; force_submit_from_n has now
\* sent every chunk of its plan again, each was answered as a duplicate, and
\* it is about to report sent = the number of chunks of the plan
ForceResubmitSeen ==
    /\ ForceSettled
    /\ upc = "planned"
    /\ idx > Len(upload_chunks)
    /\ Len(upload_chunks) >= 1
    /\ n_sent = Len(upload_chunks)
    /\ Cardinality({r \in Requests : pc[r] = "dup"}) = Len(upload_chunks)
    /\ \A k \in PlanKeys : \A i \in 1..Len(body) : CopiesIn(Doc(k, i), store) = 1


(***************************************************************************)
(* C39. A request of force_submit_from_n, sent under the manifest's own    *)
(* key for a chunk whose upload had been acknowledged, that has met the    *)
(* row of the chunk on its arrival is answered 200 with duplicate true and *)
(* inserted 0: it never gets to the ingest, so that it changes neither the *)
(* record store nor the ledger, and the tool counts it as sent.            *)
(***************************************************************************)
C39_ForcedResubmitIsDuplicate ==
    [][\A r \in Requests :
          tool = "force" /\ conn = r /\ late[r] /\ pc[r] = "readback" =>
              /\ pc'[r] \in {"readback", "dup", "crashed"}
              /\ pc'[r] = "dup" => resp'[r] = DupResponse(hdr[r])
      ]_vars

=============================================================================
